---- MODULE Spec2Model ----
(***************************************************************************)
(* LeOpinion: the resumable scraping pipeline.                              *)
(*   src/src/checkpoint.py  CheckpointManager / PipelineState               *)
(*   src/src/scraper.py     TwitterScraper                                  *)
(*   src/src/storage.py     TweetStore                                      *)
(*   src/src/main.py        run_pipeline                                    *)
(* Spec    run_pipeline driven by its environment (source results, process  *)
(*         crashes, operator interruptions, the calendar).                  *)
(* SpecCP  CheckpointManager driven through its public operations, the way  *)
(*         tests/unit/test_checkpoint.py drives it.                         *)
(***************************************************************************)
EXTENDS Integers, Sequences, FiniteSets, TLC

VARIABLES
    today,        \* the calendar day datetime.now() falls in
    file,         \* the checkpoint file on disk
    mem,          \* CheckpointManager._state of the live process
    cpBinding,    \* what `checkpoint._deserialize_tweet` (main.py:144) resolves to
    pc,           \* position of the live run_pipeline call ("idle": no process)
    loc,          \* run_pipeline's and the fetch engine's local variables
    tasks,        \* the process_topic tasks of the batch in flight
    db,           \* the relational store: runs and tweet rows
    res,          \* how the last run_pipeline call ended
    hist          \* history of the current run (read by the properties only)

vars == <<today, file, mem, cpBinding, pc, loc, tasks, db, res, hist>>

----------------------------------------------------------------------------
(* Bounds of the model *)

MaxDay == 2          \* calendar days 1..MaxDay
MaxRuns == 2         \* run_pipeline invocations in one behaviour
ItemsPerTopic == 3   \* items a topic's search yields when it yields any

(* Program constants *)

MAX_RETRIES == 3

\* config.app.top_tweets_for_replies, as configured for the runs of Spec
TopN == 1

----------------------------------------------------------------------------
(* Values *)

None == <<>>
Some(x) == <<x>>

Min(a, b) == IF a < b THEN a ELSE b

RECURSIVE RemoveFirst(_, _)
\* list.remove(x): drops the first occurrence
RemoveFirst(s, x) ==
    IF s = <<>> THEN <<>>
    ELSE IF Head(s) = x THEN Tail(s)
    ELSE <<Head(s)>> \o RemoveFirst(Tail(s), x)

InSeq(x, s) == \E i \in 1..Len(s) : s[i] = x

SeqSet(s) == {s[i] : i \in 1..Len(s)}

\* dict.get(key, default)
DictGet(d, k, default) == IF k \in DOMAIN d THEN d[k] ELSE default

\* datetime.now().strftime("%Y%m%d"): the 8-digit date of a day
strftime(day) == <<"Ymd", day>>

\* datetime.isoformat() and datetime.fromisoformat()
isoformat(dt) == <<"iso", dt[2]>>
fromisoformat(s) == <<"datetime", s[2]>>

\* config.app.broad_topics
broad_topics == <<"a", "b">>

----------------------------------------------------------------------------
(* ScrapedTweet and its checkpoint encoding *)

ScrapedTweet(id, likes, retweets, parent) ==
    [id |-> id, text |-> "text", username |-> "user", display_name |-> "User",
     created_at |-> <<"datetime", id>>, likes |-> likes, retweets |-> retweets,
     replies |-> 0, views |-> None, language |-> Some("en"),
     is_retweet |-> FALSE, hashtags |-> <<>>, parent_tweet_id |-> parent]

serialize_tweet(tweet) ==
    [id |-> tweet.id, text |-> tweet.text, username |-> tweet.username,
     display_name |-> tweet.display_name,
     created_at |-> IF tweet.created_at # None THEN isoformat(tweet.created_at) ELSE None,
     likes |-> tweet.likes, retweets |-> tweet.retweets, replies |-> tweet.replies,
     views |-> tweet.views, language |-> tweet.language, hashtags |-> tweet.hashtags,
     is_retweet |-> tweet.is_retweet, parent_tweet_id |-> tweet.parent_tweet_id]

\* deserialize_tweet that does not read parent_tweet_id
deserialize_tweet_without_parent(data) ==
    [id |-> data.id, text |-> data.text, username |-> data.username,
     display_name |-> DictGet(data, "display_name", "Unknown"),
     created_at |-> IF DictGet(data, "created_at", None) # None
                    THEN fromisoformat(data.created_at) ELSE None,
     likes |-> data.likes, retweets |-> data.retweets, replies |-> data.replies,
     views |-> DictGet(data, "views", None),
     language |-> DictGet(data, "language", None),
     hashtags |-> DictGet(data, "hashtags", <<>>),
     is_retweet |-> data.is_retweet,
     parent_tweet_id |-> None]

deserialize_tweet(data) ==
    [id |-> data.id, text |-> data.text, username |-> data.username,
     display_name |-> DictGet(data, "display_name", "Unknown"),
     created_at |-> IF DictGet(data, "created_at", None) # None
                    THEN fromisoformat(data.created_at) ELSE None,
     likes |-> data.likes, retweets |-> data.retweets, replies |-> data.replies,
     views |-> DictGet(data, "views", None),
     language |-> DictGet(data, "language", None),
     hashtags |-> DictGet(data, "hashtags", <<>>),
     is_retweet |-> data.is_retweet,
     parent_tweet_id |-> DictGet(data, "parent_tweet_id", None)]

SerializeAll(tweets) == [i \in 1..Len(tweets) |-> serialize_tweet(tweets[i])]
DeserializeAll(dicts) == [i \in 1..Len(dicts) |-> deserialize_tweet(dicts[i])]

----------------------------------------------------------------------------
(* PipelineState and CheckpointManager *)

\* started_at and last_updated are wall-clock stamps that no code reads back; the
\* model keeps the day of the last save in hist.saved_day instead
PipelineState(run_id, topics) ==
    [run_id |-> run_id,
     step1_complete |-> FALSE, step2_complete |-> FALSE,
     topics_completed |-> <<>>, topics_remaining |-> topics,
     broad_tweets |-> <<>>, error |-> "",
     retry_counts |-> [t \in {} |-> 0]]

\* the value `mem` and `file` carry when they hold no state
Blank == PipelineState(strftime(0), <<>>)

NoState == [has |-> FALSE, st |-> Blank]
Held(st) == [has |-> TRUE, st |-> st]

NoFile == [kind |-> "absent", st |-> Blank]
TornFile == [kind |-> "torn", st |-> Blank]
Written(st) == [kind |-> "json", st |-> st]

\* a save() that leaves the write for later
save_write_behind(m, old) == old

\* save(): rewrites the file from the state, if there is a state
save(m, old) == IF m.has THEN Written(m.st) ELSE old

\* load(): the state the file parses to, if it parses
load(f, m) == IF f.kind = "json" THEN Held(f.st) ELSE m
load_result(f) == IF f.kind = "json" THEN Held(f.st) ELSE NoState

\* should_resume without the check of line 153
should_resume_ignoring_step2(f, day) ==
    LET state == load_result(f) IN
    IF ~state.has THEN FALSE
    ELSE IF state.st.run_id # strftime(day) THEN FALSE
    ELSE TRUE

\* should_resume that takes every file that exists for a checkpoint
should_resume_unparsed(f, day) ==
    IF f.kind = "absent" THEN FALSE
    ELSE IF f.kind = "json" /\ f.st.run_id # strftime(day) THEN FALSE
    ELSE IF f.kind = "json" /\ f.st.step2_complete THEN FALSE
    ELSE TRUE

should_resume(f, day) ==
    LET state == load_result(f) IN
    IF ~state.has THEN FALSE
    ELSE IF state.st.run_id # strftime(day) THEN FALSE
    ELSE IF state.st.step2_complete THEN FALSE
    ELSE TRUE

\* a start_new_run that carries the previous run's identifier forward
start_new_run_keeps_run_id(topics, day) == PipelineState(strftime(day - 1), topics)

\* start_new_run(topics) (lines 97-110)
start_new_run(topics, day) == PipelineState(strftime(day), topics)

\* the retry test of line 176 written with <=
retry_scheduled_le(state, topic, tweets) ==
    tweets = <<>> /\ DictGet(state.retry_counts, topic, 0) <= MAX_RETRIES

\* the retry branch of mark_topic_complete is taken (lines 174-180)
retry_scheduled(state, topic, tweets) ==
    tweets = <<>> /\ DictGet(state.retry_counts, topic, 0) < MAX_RETRIES

\* mark_topic_complete without the retry branch (lines 174-182)
mark_topic_complete_no_retry(state, topic, tweets) ==
    [state EXCEPT
        !.topics_remaining = IF InSeq(topic, @) THEN RemoveFirst(@, topic) ELSE @,
        !.topics_completed = IF InSeq(topic, @) THEN @ ELSE Append(@, topic),
        !.broad_tweets = @ \o SerializeAll(tweets)]

\* mark_topic_complete without the removal of lines 184-185
mark_topic_complete_keeps_remaining(state, topic, tweets) ==
    IF retry_scheduled(state, topic, tweets)
    THEN [state EXCEPT !.retry_counts =
              (topic :> (DictGet(state.retry_counts, topic, 0) + 1)) @@ state.retry_counts]
    ELSE [state EXCEPT
            !.topics_completed = IF InSeq(topic, @) THEN @ ELSE Append(@, topic),
            !.broad_tweets = @ \o SerializeAll(tweets)]

mark_topic_complete(state, topic, tweets) ==
    IF retry_scheduled(state, topic, tweets)
    THEN [state EXCEPT !.retry_counts =
              (topic :> (DictGet(state.retry_counts, topic, 0) + 1)) @@ state.retry_counts]
    ELSE [state EXCEPT
            !.topics_remaining = IF InSeq(topic, @) THEN RemoveFirst(@, topic) ELSE @,
            !.topics_completed = IF InSeq(topic, @) THEN @ ELSE Append(@, topic),
            !.broad_tweets = @ \o SerializeAll(tweets)]

get_broad_tweets(state) == DeserializeAll(state.broad_tweets)

complete_step1(state) == [state EXCEPT !.step1_complete = TRUE]
complete_step2(state) == [state EXCEPT !.step2_complete = TRUE]
set_error(state, error) == [state EXCEPT !.error = error]

clear_file == NoFile

\* what a save() that raises OSError leaves on disk: open() failed and the file is
\* as it was, or the file was truncated and json.dump did not finish
WriteFailure(old) == {old, TornFile}

----------------------------------------------------------------------------
(* TweetStore: db.runs maps a run_id to its Run row, db.tweets holds the Tweet   *)
(* rows. The table is a multiset of rows (its primary key tells equal rows     *)
(* apart): a row carries the number of the copy it is                          *)

str(n) == <<"str", n>>

EmptyDb == [runs |-> [r \in {} |-> 0], tweets |-> {}, finalized |-> [r \in {} |-> 0]]

\* start_run that writes the Run record whether or not the run exists
start_run_restamping(d, run_id, now) ==
    [d EXCEPT !.runs = (run_id :> [started_at |-> Some(<<"datetime", now>>),
                                   completed_at |-> None,
                                   tweet_count |-> 0]) @@ @]

\* start_run at the time `now`
start_run(d, run_id, now) ==
    IF run_id \in DOMAIN d.runs THEN d
    ELSE [d EXCEPT !.runs = (run_id :> [started_at |-> Some(<<"datetime", now>>),
                                        completed_at |-> None,
                                        tweet_count |-> 0]) @@ @]

HasRow(rows, tweet_id, run_id) ==
    \E r \in rows : r.tweet_id = tweet_id /\ r.run_id = run_id

TweetRow(copy, tweet, run_id, topic) ==
    [copy |-> copy, tweet_id |-> str(tweet.id), run_id |-> run_id, topic |-> topic,
     parent_tweet_id |-> IF tweet.parent_tweet_id # None
                         THEN Some(str(tweet.parent_tweet_id[1])) ELSE None]

\* session.add(Tweet(...)): one more row, a further copy if the table holds its like
AddRow(rows, tweet, run_id, topic) ==
    LET same == {r \in rows : [r EXCEPT !.copy = 1] = TweetRow(1, tweet, run_id, topic)}
    IN  rows \cup {TweetRow(Cardinality(same) + 1, tweet, run_id, topic)}

RECURSIVE InsertRows_unchecked(_, _, _, _)
\* the loop of store_tweets without the test of lines 108-115
InsertRows_unchecked(rows, tweets, run_id, topic) ==
    IF tweets = <<>> THEN rows
    ELSE InsertRows_unchecked(
            AddRow(rows, Head(tweets), run_id, topic),
            Tail(tweets), run_id, topic)

RECURSIVE InsertRows(_, _, _, _)
\* the loop of store_tweets (lines 104-135): a tweet whose id the run already
\* holds is skipped; the SELECT of line 108 flushes the session first, so it
\* also sees the rows this call has added
InsertRows(rows, tweets, run_id, topic) ==
    IF tweets = <<>> THEN rows
    ELSE InsertRows(
            IF HasRow(rows, str(Head(tweets).id), run_id) THEN rows
            ELSE AddRow(rows, Head(tweets), run_id, topic),
            Tail(tweets), run_id, topic)

store_tweets(d, tweets, run_id, topic) ==
    [d EXCEPT !.tweets = InsertRows(@, tweets, run_id, topic)]

RECURSIVE inserted(_, _, _, _)
\* the counter `inserted` that store_tweets returns (lines 101, 135, 140)
inserted(rows, tweets, run_id, topic) ==
    IF tweets = <<>> THEN 0
    ELSE IF HasRow(rows, str(Head(tweets).id), run_id)
         THEN inserted(rows, Tail(tweets), run_id, topic)
         ELSE 1 + inserted(AddRow(rows, Head(tweets), run_id, topic), Tail(tweets),
                           run_id, topic)

get_run_count(d, run_id) == Cardinality({r \in d.tweets : r.run_id = run_id})

\* complete_run: an UPDATE of the run's row; d.finalized counts the calls that
\* took effect for each run (history)
complete_run(d, run_id) ==
    IF run_id \in DOMAIN d.runs
    THEN [d EXCEPT !.runs[run_id].completed_at = Some("datetime"),
                   !.runs[run_id].tweet_count = get_run_count(d, run_id),
                   !.finalized = (run_id :> (DictGet(@, run_id, 0) + 1)) @@ @]
    ELSE d

----------------------------------------------------------------------------
(* The external source (twscrape) *)

MaxAccounts == 2     \* accounts in the pool

\* topic names; config.app.broad_topics is the head of the list
TopicPool == <<"a", "b", "c", "d", "e", "f">>

TopicNo(t) == CHOOSE i \in 1..Len(TopicPool) : TopicPool[i] = t

\* what api.search yields for a topic when it yields anything
SourceItems(t) ==
    [k \in 1..ItemsPerTopic |-> ScrapedTweet(10 * TopicNo(t) + k, k, 0, None)]

\* search_tweets: the normalized items, or [] (nothing found, or an error caught
\* at scraper.py:281-284)
SearchResults(t) == {<<>>, SourceItems(t)}

\* fetch_replies(tweet_id): replies tagged with their parent, or []
ReplyResults(tweet_id) == {<<>>, <<ScrapedTweet(100 + tweet_id, 0, 0, Some(tweet_id))>>}

\* what process_topic gets from `await self.search_tweets(...)`: the items, [],
\* or an exception (scraper.py:202 is outside the try of search_tweets)
SearchOutcomes(t) ==
    {[raised |-> TRUE, tweets |-> <<>>]} \cup
    {[raised |-> FALSE, tweets |-> tw] : tw \in SearchResults(t)}

\* api.pool.stats(): a dict that may lack the "active" key
StatsValues ==
    {[active |-> a, total |-> t] : a \in 0..MaxAccounts, t \in {0, MaxAccounts}}
        \cup {[total |-> t] : t \in {0, MaxAccounts}}

----------------------------------------------------------------------------
(* Engagement ranking (fetch_replies_for_top_tweets, scraper.py:513-515) *)

Engagement(t) == t.likes + t.retweets

RECURSIVE InsertDesc_unstable(_, _)
\* insert t before the elements of equal score: a descending sort that reverses ties
InsertDesc_unstable(sorted, t) ==
    IF sorted = <<>> THEN <<t>>
    ELSE IF Engagement(Head(sorted)) > Engagement(t)
         THEN <<Head(sorted)>> \o InsertDesc_unstable(Tail(sorted), t)
         ELSE <<t>> \o sorted

RECURSIVE InsertDesc(_, _)
\* insert t after every element whose score is >= its own: a stable descending sort
InsertDesc(sorted, t) ==
    IF sorted = <<>> THEN <<t>>
    ELSE IF Engagement(Head(sorted)) >= Engagement(t)
         THEN <<Head(sorted)>> \o InsertDesc(Tail(sorted), t)
         ELSE <<t>> \o sorted

RECURSIVE SortedDesc(_)
SortedDesc(tweets) ==
    IF tweets = <<>> THEN <<>>
    ELSE InsertDesc(SortedDesc(SubSeq(tweets, 1, Len(tweets) - 1)), tweets[Len(tweets)])

top_tweets(tweets, top_n) == SubSeq(SortedDesc(tweets), 1, Min(top_n, Len(tweets)))

----------------------------------------------------------------------------
(* run_pipeline: local variables, outcome and history *)

LocInit ==
    [resuming |-> FALSE, existing_tweets |-> <<>>, remaining |-> <<>>,
     total |-> None, reported |-> None, active_count |-> 0, topic_index |-> 0, batch_number |-> 0,
     all_tweets |-> <<>>, broad_tweets |-> <<>>, top |-> <<>>, i |-> 0,
     reply_tweets |-> <<>>, error |-> "",
     topics |-> <<>>, skip_topics |-> <<>>,   \* the engine's arguments (history)
     fetched |-> <<>>]                        \* search_tweets calls that ended, per topic

Topics == SeqSet(broad_topics)

HistInit ==
    [runs |-> 0,                         \* run_pipeline invocations so far
     run_day |-> 0,                      \* day start_new_run created the checkpoint's run
     saved_day |-> 0,                    \* day of the manager's last save (SpecCP)
     nonempty |-> {},                    \* topics marked complete with items, this run
     empties |-> [t \in Topics |-> 0],   \* empty mark_topic_complete calls, this run
     C |-> <<>>,                         \* topics marked complete with items, in order
     items |-> <<>>,                     \* the items those calls recorded, in order
     unretried |-> {},                   \* retry scheduled, not fetched again since
     coop |-> TRUE,                      \* this invocation: source and storage worked
     fresh |-> FALSE,                    \* this invocation found no checkpoint file
     after_failure |-> FALSE,            \* this invocation follows a failed one of the run
     after_stop |-> "none",              \* the stage in which the run's last process stopped
     had_file |-> FALSE,                 \* a checkpoint file existed in this invocation
     finalized_now |-> FALSE,            \* complete_run returned in this invocation
     created |-> {},                     \* scraper / store objects this invocation made
     wfails |-> 0,                       \* checkpoint saves that raised so far
     interrupted |-> FALSE,              \* the operator interrupted this invocation
     log |-> <<>>]                       \* the process_topic calls of the engine (SpecEngine)

\* the stages of run_pipeline a position belongs to
FetchStage == {"step1", "batch", "gather", "complete1"}
StageOf(p) ==
    IF p \in {"idle", "resolve"} THEN "init"
    ELSE IF p = "stats" THEN "accounts"
    ELSE IF p \in FetchStage THEN "fetch"
    ELSE "other"

ResInit == [kind |-> "none", stage |-> "init"]

\* a new run of the checkpoint begins: its history starts over
NewRunHist(h, day) ==
    [h EXCEPT !.run_day = day, !.nonempty = {}, !.empties = [t \in Topics |-> 0],
              !.C = <<>>, !.items = <<>>, !.unretried = {}]

\* mark_topic_complete(topic, tweets) returned
MarkedHist(h, state, topic, tweets) ==
    IF tweets = <<>>
    THEN [h EXCEPT !.empties[topic] = Min(@ + 1, MAX_RETRIES + 1),
                   !.unretried = IF retry_scheduled(state, topic, tweets)
                                 THEN @ \cup {topic} ELSE @,
                   !.coop = FALSE]
    ELSE [h EXCEPT !.nonempty = @ \cup {topic},
                   !.C = IF InSeq(topic, @) THEN @ ELSE Append(@, topic),
                   !.items = @ \o tweets]

\* the positions inside the try statement of main.py:87-188
InTry == {"step1", "batch", "gather", "complete1", "check", "replies", "store",
          "store_replies", "complete_run", "step2", "clear", "except"}

\* main.py:190-192: the close() calls the finally clause makes, in order, when
\* run_pipeline is left from position p; the clause belongs to the try of line 87
finally_closes(p) == IF p \in InTry THEN <<"scraper", "store">> ELSE <<>>

\* the process ends: by return, by an exception leaving run_pipeline, or by dying
Ended(kind) ==
    /\ pc' = "idle"
    /\ mem' = NoState
    /\ loc' = LocInit
    /\ tasks' = <<>>
    /\ res' = [kind |-> kind, stage |-> StageOf(pc),
               closed |-> IF kind = "crashed" THEN <<>> ELSE finally_closes(pc)]

\* an exception reaches `except Exception` (main.py:184)
Raise(msg) ==
    /\ pc' = "except"
    /\ loc' = [LocInit EXCEPT !.error = msg]
    /\ tasks' = <<>>

----------------------------------------------------------------------------
(* run_pipeline, step by step *)

\* a run_pipeline that creates the manager and starts a run before it validates
Begin_checkpoint_first ==
    /\ pc = "idle"
    /\ hist.runs < MaxRuns
    /\ Ended("false")
    /\ file' = IF should_resume(file, today) THEN file
               ELSE Written(start_new_run(broad_topics, today))
    /\ hist' = [hist EXCEPT !.runs = @ + 1, !.created = {}, !.interrupted = FALSE]
    /\ UNCHANGED <<today, cpBinding, db>>

\* main.py:34-48: validate the configuration, create the manager, should_resume()
Begin ==
    /\ pc = "idle"
    /\ hist.runs < MaxRuns
    /\ \E valid \in BOOLEAN :
        IF ~valid
        THEN /\ Ended("false")
             /\ hist' = [hist EXCEPT !.runs = @ + 1, !.coop = TRUE, !.fresh = FALSE,
                                     !.after_failure = FALSE, !.after_stop = "none",
                                     !.had_file = (file.kind # "absent"),
                                     !.finalized_now = FALSE, !.unretried = {},
                                     !.created = {}, !.interrupted = FALSE]
        ELSE /\ pc' = "resolve"
             /\ mem' = load(file, NoState)
             /\ loc' = [LocInit EXCEPT !.resuming = should_resume(file, today)]
             /\ hist' = [hist EXCEPT
                   !.runs = @ + 1, !.coop = TRUE, !.unretried = {},
                   !.fresh = (file.kind = "absent"),
                   !.after_failure = /\ res.kind \in {"false", "raised"}
                                     /\ res.stage # "init"
                                     /\ hist.run_day = today,
                   !.after_stop = IF /\ res.kind \in {"crashed", "interrupted"}
                                     /\ hist.run_day = today
                                  THEN res.stage ELSE "none",
                   !.had_file = (file.kind # "absent"),
                   !.finalized_now = FALSE, !.created = {}, !.interrupted = FALSE]
             /\ res' = ResInit
             /\ UNCHANGED tasks
    /\ UNCHANGED <<today, file, cpBinding, db>>

\* main.py:49-59: resume the loaded state, or start_new_run(topics) and save it
Resolve ==
    /\ pc = "resolve"
    /\ IF loc.resuming
       THEN UNCHANGED <<mem, file, hist>>
       ELSE /\ mem' = Held(start_new_run(broad_topics, today))
            /\ file' = save(mem', file)
            /\ hist' = [NewRunHist(hist, today) EXCEPT !.had_file = TRUE]
    /\ pc' = "components"
    /\ UNCHANGED <<today, cpBinding, loc, tasks, db, res>>

\* main.py:61-66: the scraper, the store, store.start_run(run_id); outside the
\* try. run_pipeline never reads started_at back: the time of the call is not
\* followed here (it is in SpecStore)
Components ==
    /\ pc = "components"
    /\ \/ /\ db' = start_run(db, mem.st.run_id, 0)
          /\ pc' = "stats"
          /\ hist' = [hist EXCEPT !.created = {"scraper", "store"}]
          /\ UNCHANGED <<mem, loc, tasks, res>>
       \/ \* create_tweet_store (line 65) or start_run (line 66) raises
          \E made \in {{"scraper"}, {"scraper", "store"}} :
             /\ Ended("raised")
             /\ hist' = [hist EXCEPT !.coop = FALSE, !.created = made]
             /\ UNCHANGED db
    /\ UNCHANGED <<today, file, cpBinding>>

\* the `finally` of run_pipeline after a `return False`
ReturnFalse ==
    /\ Ended("false")

\* an account check that goes on whatever the pool reports
AccountCheck_ignoring_total ==
    /\ pc = "stats"
    /\ \E stats \in StatsValues :
          /\ pc' = "step1"
          /\ loc' = [loc EXCEPT !.total = Some(stats.total)]
    /\ UNCHANGED <<today, file, mem, cpBinding, tasks, db, res, hist>>

\* main.py:68-85: the account check; loc.total keeps the total it read
AccountCheck ==
    /\ pc = "stats"
    /\ \/ \E stats \in StatsValues :
            IF DictGet(stats, "total", 0) = 0
            THEN /\ ReturnFalse
                 /\ hist' = [hist EXCEPT !.coop = FALSE]
            ELSE /\ pc' = "step1"
                 /\ loc' = [loc EXCEPT !.total = Some(stats.total)]
                 /\ UNCHANGED <<mem, tasks, res, hist>>
       \/ \* get_account_stats raised: logged, and the run goes on
          /\ pc' = "step1"
          /\ UNCHANGED <<mem, loc, tasks, res, hist>>
    /\ UNCHANGED <<today, file, cpBinding, db>>

\* the engine's topic filter without its skip list
remaining_topics_unfiltered(topics, skip_topics) == topics

\* scraper.py:346-348: [t for t in topics if t not in skip_topics]
remaining_topics(topics, skip_topics) ==
    SelectSeq(topics, LAMBDA t : ~InSeq(t, skip_topics))

\* one more search_tweets call for topic t has ended
Fetched(f, t) == (t :> (DictGet(f, t, 0) + 1)) @@ f

\* main.py:90-105 and scraper.py:346-369: enter step 1, or skip it
Step1Begin ==
    /\ pc = "step1"
    /\ IF mem.st.step1_complete
       THEN /\ loc' = [loc EXCEPT !.total = None,
                                  !.broad_tweets = get_broad_tweets(mem.st)]
            /\ pc' = "check"
            /\ UNCHANGED <<tasks, hist>>
       ELSE LET existing == IF mem.st.topics_completed # <<>>
                            THEN get_broad_tweets(mem.st) ELSE <<>>
                remaining == remaining_topics(broad_topics, mem.st.topics_completed)
            IN  IF remaining = <<>>
                THEN /\ loc' = [loc EXCEPT !.total = None,
                                           !.existing_tweets = existing,
                                           !.topics = broad_topics,
                                           !.skip_topics = mem.st.topics_completed]
                     /\ pc' = "complete1"
                     /\ UNCHANGED <<tasks, hist>>
                ELSE \/ \E stats \in StatsValues :
                          /\ loc' = [loc EXCEPT !.total = None,
                                                !.existing_tweets = existing,
                                                !.topics = broad_topics,
                                                !.skip_topics = mem.st.topics_completed,
                                                !.remaining = remaining,
                                                !.active_count = DictGet(stats, "active", 1)]
                          /\ pc' = "batch"
                          /\ UNCHANGED <<tasks, hist>>
                     \/ /\ Raise("OperationalError")
                        /\ hist' = [hist EXCEPT !.coop = FALSE]
    /\ UNCHANGED <<today, file, mem, cpBinding, db, res>>

\* a batch as wide as the pool
workers_per_batch_unbounded(active_count) == active_count

\* scraper.py:360
workers_per_batch(active_count) == Min(active_count, 2)

\* worker_slots with every batch starting at slot 0
worker_slots_from_zero(batch_number, per_batch, total_slots) ==
    [i \in 1..per_batch |-> (i - 1) % total_slots]

\* scraper.py:378-379: the slots of a batch, round-robin through all the slots
worker_slots(batch_number, per_batch, total_slots) ==
    LET base_slot == (batch_number * per_batch) % total_slots
    IN  [i \in 1..per_batch |-> (base_slot + (i - 1)) % total_slots]

\* scraper.py:382: remaining[topic_index:topic_index + workers_per_batch]
batch_topics(remaining, topic_index, per_batch) ==
    SubSeq(remaining, topic_index + 1, Min(topic_index + per_batch, Len(remaining)))

\* scraper.py:412-415: one process_topic task per topic of the batch; `calls`
\* counts the task's on_topic_complete calls (history)
BatchTasks(l) ==
    LET slots == worker_slots(l.batch_number, workers_per_batch(l.active_count),
                              l.active_count)
        batch == batch_topics(l.remaining, l.topic_index,
                              workers_per_batch(l.active_count))
    IN  [k \in 1..Len(batch) |->
            [topic |-> batch[k], wid |-> slots[k], done |-> FALSE, calls |-> 0]]

\* scraper.py:371-415: the head of the batch loop and the tasks of one batch
BatchStart ==
    /\ pc = "batch"
    /\ IF loc.topic_index < Len(loc.remaining)
       THEN IF loc.active_count = 0
            THEN \* (batch_number * workers_per_batch) % total_slots
                 /\ Raise("ZeroDivisionError")
                 /\ hist' = [hist EXCEPT !.coop = FALSE]
            ELSE /\ tasks' = BatchTasks(loc)
                 /\ pc' = "gather"
                 /\ UNCHANGED <<loc, hist>>
       ELSE /\ pc' = "complete1"
            /\ UNCHANGED <<loc, tasks, hist>>
    /\ UNCHANGED <<today, file, mem, cpBinding, db, res>>

\* the mark_topic_complete calls of one process_topic task, as the state they
\* leave and the history they make: line 400, then line 408 after line 400 raised
Once(topic, tweets) == mark_topic_complete(mem.st, topic, tweets)
Twice(topic, tweets) == mark_topic_complete(Once(topic, tweets), topic, <<>>)
OnceHist(topic, tweets) ==
    MarkedHist([hist EXCEPT !.unretried = @ \ {topic}], mem.st, topic, tweets)
TwiceHist(topic, tweets) ==
    MarkedHist(OnceHist(topic, tweets), Once(topic, tweets), topic, <<>>)

\* scraper.py:389-409: one process_topic task gets the outcome of its search,
\* extends all_tweets and calls on_topic_complete -> mark_topic_complete -> save,
\* which returns; no await separates these steps
TopicDone ==
    /\ pc = "gather"
    /\ \E k \in 1..Len(tasks) :
        /\ ~tasks[k].done
        /\ \E found \in SearchOutcomes(tasks[k].topic) :
            /\ loc' = [loc EXCEPT !.all_tweets = @ \o found.tweets,
                                  !.fetched = Fetched(@, tasks[k].topic)]
            /\ mem' = Held(Once(tasks[k].topic, found.tweets))
            /\ file' = save(mem', file)
            /\ tasks' = [tasks EXCEPT ![k].done = TRUE, ![k].calls = 1]
            /\ hist' = OnceHist(tasks[k].topic, found.tweets)
    /\ UNCHANGED <<today, cpBinding, pc, db, res>>

\* scraper.py:416-426: gather returned; advance to the next batch
BatchEnd ==
    /\ pc = "gather"
    /\ \A k \in 1..Len(tasks) : tasks[k].done
    /\ loc' = [loc EXCEPT !.topic_index = @ + Len(tasks), !.batch_number = @ + 1]
    /\ tasks' = <<>>
    /\ pc' = "batch"
    /\ UNCHANGED <<today, file, mem, cpBinding, db, res, hist>>

\* main.py:107-109
CompleteStep1 ==
    /\ pc = "complete1"
    /\ loc' = [LocInit EXCEPT !.broad_tweets = loc.existing_tweets \o loc.all_tweets]
    /\ mem' = Held(complete_step1(mem.st))
    /\ file' = save(mem', file)
    /\ pc' = "check"
    /\ UNCHANGED <<today, cpBinding, tasks, db, res, hist>>

\* a check that clears the checkpoint when there is nothing to store
CheckTweets_clearing ==
    /\ pc = "check"
    /\ IF loc.broad_tweets = <<>>
       THEN /\ ReturnFalse
            /\ file' = clear_file
       ELSE /\ loc' = [loc EXCEPT !.top = top_tweets(loc.broad_tweets, TopN), !.i = 1]
            /\ pc' = "replies"
            /\ UNCHANGED <<mem, tasks, res, file>>
    /\ UNCHANGED <<today, cpBinding, db, hist>>

\* main.py:116-118 and scraper.py:510-515
CheckTweets ==
    /\ pc = "check"
    /\ IF loc.broad_tweets = <<>>
       THEN ReturnFalse
       ELSE /\ loc' = [loc EXCEPT !.top = top_tweets(loc.broad_tweets, TopN), !.i = 1]
            /\ pc' = "replies"
            /\ UNCHANGED <<mem, tasks, res>>
    /\ UNCHANGED <<today, file, cpBinding, db, hist>>

\* scraper.py:525-541: one turn of the reply loop
FetchReplies ==
    /\ pc = "replies"
    /\ \E replies \in ReplyResults(loc.top[loc.i].id) :
        loc' = IF loc.i = Len(loc.top)
               THEN [LocInit EXCEPT !.reply_tweets = loc.reply_tweets \o replies]
               ELSE [loc EXCEPT !.reply_tweets = @ \o replies, !.i = @ + 1]
    /\ pc' = IF loc.i = Len(loc.top) THEN "store" ELSE "replies"
    /\ UNCHANGED <<today, file, mem, cpBinding, tasks, db, res, hist>>

\* `checkpoint._deserialize_tweet` (main.py:144) can be looked up on the manager
private_deserialize_bound == cpBinding = "tests"

\* main.py:134-150: rebuild the items from state.broad_tweets and store them
StoreBroad ==
    /\ pc = "store"
    /\ IF mem.st.step2_complete
       THEN \* main.py:162-164: get_run_count
            /\ pc' = "clear"
            /\ UNCHANGED <<loc, tasks, db, hist>>
       ELSE IF mem.st.broad_tweets # <<>> /\ ~private_deserialize_bound
       THEN /\ Raise("AttributeError")
            /\ UNCHANGED <<db, hist>>
       ELSE \E db_ok \in BOOLEAN :
            IF db_ok
            THEN /\ db' = IF mem.st.broad_tweets # <<>>
                          THEN store_tweets(db, DeserializeAll(mem.st.broad_tweets),
                                            mem.st.run_id, "broad")
                          ELSE db
                 /\ pc' = "store_replies"
                 /\ UNCHANGED <<loc, tasks, hist>>
            ELSE /\ Raise("OperationalError")
                 /\ hist' = [hist EXCEPT !.coop = FALSE]
                 /\ UNCHANGED db
    /\ UNCHANGED <<today, file, mem, cpBinding, res>>

\* main.py:152-155
StoreReplies ==
    /\ pc = "store_replies"
    /\ \E db_ok \in BOOLEAN :
        IF db_ok \/ loc.reply_tweets = <<>>
        THEN /\ db' = IF loc.reply_tweets # <<>>
                      THEN store_tweets(db, loc.reply_tweets, mem.st.run_id, "replies")
                      ELSE db
             /\ pc' = "complete_run"
             /\ loc' = [LocInit EXCEPT !.reply_tweets = loc.reply_tweets]
             /\ UNCHANGED <<tasks, hist>>
        ELSE /\ Raise("OperationalError")
             /\ hist' = [hist EXCEPT !.coop = FALSE]
             /\ UNCHANGED db
    /\ UNCHANGED <<today, file, mem, cpBinding, res>>

\* main.py:157
CompleteRun ==
    /\ pc = "complete_run"
    /\ \E db_ok \in BOOLEAN :
        IF db_ok
        THEN /\ db' = complete_run(db, mem.st.run_id)
             /\ pc' = "step2"
             /\ loc' = LocInit
             /\ hist' = [hist EXCEPT !.finalized_now = TRUE]
             /\ UNCHANGED tasks
        ELSE /\ Raise("OperationalError")
             /\ hist' = [hist EXCEPT !.coop = FALSE]
             /\ UNCHANGED db
    /\ UNCHANGED <<today, file, mem, cpBinding, res>>

\* main.py:158-159
CompleteStep2 ==
    /\ pc = "step2"
    /\ mem' = Held(complete_step2(mem.st))
    /\ file' = save(mem', file)
    /\ pc' = "clear"
    /\ UNCHANGED <<today, cpBinding, loc, tasks, db, res, hist>>

\* main.py:168-177: checkpoint.clear(), return True
Clear ==
    /\ pc = "clear"
    /\ file' = clear_file
    /\ Ended("true")
    /\ UNCHANGED <<today, cpBinding, db, hist>>

\* an `except` branch that also clears the checkpoint
Except_clearing ==
    /\ pc = "except"
    /\ file' = clear_file
    /\ Ended("false")
    /\ UNCHANGED <<today, cpBinding, db, hist>>

\* main.py:184-188: set_error(str(e)), return False
Except ==
    /\ pc = "except"
    /\ file' = save(Held(set_error(mem.st, loc.error)), file)
    /\ Ended("false")
    /\ UNCHANGED <<today, cpBinding, db, hist>>

----------------------------------------------------------------------------
(* The environment of the process *)

\* positions whose next step rewrites the checkpoint file
Saving ==
    \/ pc = "resolve" /\ ~loc.resuming
    \/ pc = "gather" /\ \E k \in 1..Len(tasks) : ~tasks[k].done
    \/ pc \in {"complete1", "step2", "except"}

\* positions at which the coroutine is suspended in an await
Awaiting ==
    \/ pc \in {"components", "stats", "replies", "store_replies", "complete_run"}
    \/ pc = "step1" /\ ~mem.st.step1_complete
    \/ pc = "batch" /\ loc.topic_index > 0 /\ loc.topic_index < Len(loc.remaining)
    \/ pc = "gather" /\ \E k \in 1..Len(tasks) : ~tasks[k].done
    \/ pc = "store" /\ private_deserialize_bound

\* the process dies between two steps; the file and the store keep what they hold
Crash ==
    /\ pc \notin {"idle", "cp_open", "cp_closed"}
    /\ Ended("crashed")
    /\ UNCHANGED <<today, file, cpBinding, db, hist>>

\* the process dies inside save(): open(file, "w") has truncated the file and
\* json.dump has not finished (checkpoint.py:137-138)
CrashInSave ==
    /\ pc \notin {"idle", "cp_open", "cp_closed"}
    /\ Saving
    /\ file' = TornFile
    /\ Ended("crashed")
    /\ UNCHANGED <<today, cpBinding, db, hist>>

\* an interruption that clears the checkpoint and is answered with False
Interrupt_swallowed ==
    /\ Awaiting
    /\ Ended("false")
    /\ file' = clear_file
    /\ hist' = [hist EXCEPT !.interrupted = TRUE]
    /\ UNCHANGED <<today, cpBinding, db>>

\* the operator interrupts the run at a suspension point: no handler on the way
\* catches it, main.py:179-182 re-raises it after the `finally`
Interrupt ==
    /\ Awaiting
    /\ Ended("interrupted")
    /\ hist' = [hist EXCEPT !.interrupted = TRUE]
    /\ UNCHANGED <<today, file, cpBinding, db>>

\* midnight passes
DayAdvance ==
    /\ today < MaxDay
    /\ today' = today + 1
    /\ UNCHANGED <<file, mem, cpBinding, pc, loc, tasks, db, res, hist>>

Init ==
    /\ today = 1
    /\ file = NoFile
    /\ mem = NoState
    /\ cpBinding \in {"src", "tests"}
    /\ pc = "idle"
    /\ loc = LocInit
    /\ tasks = <<>>
    /\ db = EmptyDb
    /\ res = ResInit
    /\ hist = HistInit

Next ==
    \/ Begin \/ Resolve \/ Components \/ AccountCheck \/ Step1Begin \/ BatchStart
    \/ TopicDone \/ BatchEnd \/ CompleteStep1 \/ CheckTweets \/ FetchReplies
    \/ StoreBroad \/ StoreReplies \/ CompleteRun \/ CompleteStep2 \/ Clear \/ Except
    \/ Crash \/ CrashInSave \/ Interrupt \/ DayAdvance

Spec == Init /\ [][Next]_vars

----------------------------------------------------------------------------
(* run_pipeline on a checkpoint medium whose writes can fail: save() raises       *)
(* OSError from open() or from json.dump (checkpoint.py:137-138)                 *)

MaxRunsIO == 1           \* run_pipeline invocations in one behaviour of SpecIO
MaxWriteFailures == 2    \* saves that raise in one behaviour of SpecIO

\* n more saves may raise
MayFail(n) == hist.wfails + n <= MaxWriteFailures

\* save() raised n times and left `after` on disk
Failed(n, after) ==
    /\ file' = after
    /\ hist' = [hist EXCEPT !.coop = FALSE, !.wfails = @ + n]

BeginIO ==
    /\ hist.runs < MaxRunsIO
    /\ Begin

\* main.py:58: the save() of start_new_run raises, outside the try
ResolveWriteFails ==
    /\ pc = "resolve"
    /\ ~loc.resuming
    /\ MayFail(1)
    /\ \E after \in WriteFailure(file) : Failed(1, after)
    /\ Ended("raised")
    /\ UNCHANGED <<today, cpBinding, db>>

\* scraper.py:393-409: save() raises in the callback of line 400; `except
\* Exception` calls the callback again with [] (line 408), and that call returns
TopicDoneCalledTwice ==
    /\ pc = "gather"
    /\ MayFail(1)
    /\ \E k \in 1..Len(tasks) :
        /\ ~tasks[k].done
        /\ \E tweets \in SearchResults(tasks[k].topic) :
            /\ loc' = [loc EXCEPT !.all_tweets = @ \o tweets,
                                  !.fetched = Fetched(@, tasks[k].topic)]
            /\ mem' = Held(Twice(tasks[k].topic, tweets))
            /\ file' = save(mem', file)
            /\ tasks' = [tasks EXCEPT ![k].done = TRUE, ![k].calls = 2]
            /\ hist' = [TwiceHist(tasks[k].topic, tweets) EXCEPT
                            !.coop = FALSE, !.wfails = @ + 1]
    /\ UNCHANGED <<today, cpBinding, pc, db, res>>

\* scraper.py:405-416: save() raises in the callback of line 408, reached after
\* the search raised or after the callback of line 400 raised; the exception
\* leaves process_topic, gather and get_broad_tweets_incremental
TopicDoneRaises ==
    /\ pc = "gather"
    /\ \E k \in 1..Len(tasks) :
        /\ ~tasks[k].done
        /\ \E found \in SearchOutcomes(tasks[k].topic) :
            LET n == IF found.raised THEN 1 ELSE 2 IN
            /\ MayFail(n)
            /\ mem' = Held(IF found.raised THEN Once(tasks[k].topic, <<>>)
                           ELSE Twice(tasks[k].topic, found.tweets))
            /\ file' \in WriteFailure(file)
            /\ hist' = [(IF found.raised THEN OnceHist(tasks[k].topic, <<>>)
                         ELSE TwiceHist(tasks[k].topic, found.tweets)) EXCEPT
                            !.coop = FALSE, !.wfails = @ + n]
            /\ Raise("OSError")
    /\ UNCHANGED <<today, cpBinding, db, res>>

\* main.py:108 and 158: the save() of complete_step1 / complete_step2 raises
CompleteStepWriteFails ==
    /\ pc \in {"complete1", "step2"}
    /\ MayFail(1)
    /\ mem' = Held(IF pc = "complete1" THEN complete_step1(mem.st)
                   ELSE complete_step2(mem.st))
    /\ \E after \in WriteFailure(file) : Failed(1, after)
    /\ Raise("OSError")
    /\ UNCHANGED <<today, cpBinding, db, res>>

\* main.py:186: the save() of set_error raises inside the handler; the exception
\* leaves run_pipeline
ExceptWriteFails ==
    /\ pc = "except"
    /\ MayFail(1)
    /\ \E after \in WriteFailure(file) : Failed(1, after)
    /\ Ended("raised")
    /\ UNCHANGED <<today, cpBinding, db>>

NextIO ==
    \/ BeginIO \/ Resolve \/ Components \/ AccountCheck \/ Step1Begin \/ BatchStart
    \/ TopicDone \/ BatchEnd \/ CompleteStep1 \/ CheckTweets \/ FetchReplies
    \/ StoreBroad \/ StoreReplies \/ CompleteRun \/ CompleteStep2 \/ Clear \/ Except
    \/ Crash \/ CrashInSave \/ Interrupt \/ DayAdvance
    \/ ResolveWriteFails \/ TopicDoneCalledTwice \/ TopicDoneRaises
    \/ CompleteStepWriteFails \/ ExceptWriteFails

SpecIO == Init /\ [][NextIO]_vars

----------------------------------------------------------------------------
(* get_broad_tweets_incremental driven directly: a topic list, a skip list, an    *)
(* account pool and an on_topic_complete callback that records its calls and     *)
(* may raise                                                                     *)

MaxTopics == 4       \* topics handed to the engine
MaxSlots == 5        \* accounts the pool of the engine can have

EngineTopics == SubSeq(TopicPool, 1, MaxTopics)

\* api.pool.stats() for the engine
EngineStats ==
    {[active |-> a, total |-> MaxSlots] : a \in 0..MaxSlots} \cup {[total |-> MaxSlots]}

\* process_topic without its `except Exception` branch
process_topic_unguarded(found, fails) ==
    [extend |-> found.tweets,
     calls |-> IF found.raised THEN <<>> ELSE <<Len(found.tweets)>>,
     escapes |-> found.raised \/ fails >= 1]

\* process_topic (scraper.py:389-409) for the outcome `found` of the search and a
\* callback whose first `fails` calls raise: what all_tweets is extended by, the
\* number of items each on_topic_complete call was given, and whether an
\* exception leaves the task
process_topic(found, fails) ==
    LET calls == IF found.raised THEN <<0>>
                 ELSE IF fails = 0 THEN <<Len(found.tweets)>>
                 ELSE <<Len(found.tweets), 0>>
    IN  [extend |-> found.tweets, calls |-> calls, escapes |-> fails >= Len(calls)]

\* scraper.py:346-369: the call, up to the batch loop
EngCall ==
    /\ pc = "eng_idle"
    /\ \E skipped \in SUBSET SeqSet(EngineTopics) :
        LET skip_topics == SelectSeq(EngineTopics, LAMBDA t : t \in skipped)
            remaining == remaining_topics(EngineTopics, skip_topics)
        IN
        IF remaining = <<>>
        THEN /\ pc' = "eng_done"
             /\ res' = [kind |-> "returned", stage |-> ""]
             /\ loc' = [LocInit EXCEPT !.topics = EngineTopics,
                                       !.skip_topics = skip_topics]
        ELSE \/ \E stats \in EngineStats :
                  /\ loc' = [LocInit EXCEPT
                        !.topics = EngineTopics,
                        !.skip_topics = skip_topics,
                        !.remaining = remaining,
                        !.reported = IF "active" \in DOMAIN stats
                                     THEN Some(stats.active) ELSE None,
                        !.active_count = DictGet(stats, "active", 1)]
                  /\ pc' = "batch"
                  /\ UNCHANGED res
             \/ \* get_account_stats raises (line 355)
                /\ pc' = "eng_done"
                /\ res' = [kind |-> "raised", stage |-> "OperationalError"]
                /\ UNCHANGED loc
    /\ UNCHANGED <<today, file, mem, cpBinding, tasks, db, hist>>

\* scraper.py:389-416: one task of the batch runs from the end of its search to
\* its return, or to the exception that leaves it and gather
EngTopicDone ==
    /\ pc = "gather"
    /\ \E k \in 1..Len(tasks) :
        /\ ~tasks[k].done
        /\ \E found \in SearchOutcomes(tasks[k].topic) :
           \E fails \in 0..2 :
            LET did == process_topic(found, fails) IN
            /\ fails <= Len(did.calls)
            /\ hist' = [hist EXCEPT !.log = Append(@,
                          [topic |-> tasks[k].topic, wid |-> tasks[k].wid,
                           batch |-> loc.batch_number, raised |-> found.raised,
                           fails |-> fails, calls |-> did.calls,
                           escapes |-> did.escapes])]
            /\ IF did.escapes
               THEN Raise("CallbackError")
               ELSE /\ loc' = [loc EXCEPT !.all_tweets = @ \o did.extend,
                                          !.fetched = Fetched(@, tasks[k].topic)]
                    /\ tasks' = [tasks EXCEPT ![k].done = TRUE,
                                              ![k].calls = Len(did.calls)]
                    /\ UNCHANGED pc
    /\ UNCHANGED <<today, file, mem, cpBinding, db, res>>

\* scraper.py:428-429: return all_tweets
EngReturn ==
    /\ pc = "complete1"
    /\ pc' = "eng_done"
    /\ res' = [kind |-> "returned", stage |-> ""]
    /\ UNCHANGED <<today, file, mem, cpBinding, loc, tasks, db, hist>>

\* an exception leaves get_broad_tweets_incremental
EngRaised ==
    /\ pc = "except"
    /\ pc' = "eng_done"
    /\ res' = [kind |-> "raised", stage |-> loc.error]
    /\ UNCHANGED <<today, file, mem, cpBinding, loc, tasks, db, hist>>

InitEngine ==
    /\ today = 1
    /\ file = NoFile
    /\ mem = NoState
    /\ cpBinding = "src"
    /\ pc = "eng_idle"
    /\ loc = LocInit
    /\ tasks = <<>>
    /\ db = EmptyDb
    /\ res = ResInit
    /\ hist = HistInit

NextEngine ==
    \/ EngCall \/ BatchStart \/ EngTopicDone \/ BatchEnd \/ EngReturn \/ EngRaised

SpecEngine == InitEngine /\ [][NextEngine]_vars

----------------------------------------------------------------------------
(* CheckpointManager driven through its public operations: a manager is created *)
(* over the file, asked should_resume(), and used; the file outlives it         *)

MaxMarks == 2        \* mark_topic_complete calls with items, per run

CPLive == pc \in {"cp_open", "cp_asked"}

\* CheckpointManager(checkpoint_file)
CPNew ==
    /\ pc = "cp_closed"
    /\ pc' = "cp_open"
    /\ mem' = NoState
    /\ UNCHANGED <<today, file, cpBinding, loc, tasks, db, res, hist>>

\* should_resume(): load() and the three tests
CPShouldResume ==
    /\ pc = "cp_open"
    /\ pc' = "cp_asked"
    /\ mem' = load(file, mem)
    /\ res' = [kind |-> IF should_resume(file, today) THEN "resume" ELSE "fresh",
               stage |-> "init"]
    /\ UNCHANGED <<today, file, cpBinding, loc, tasks, db, hist>>

\* load()
CPLoad ==
    /\ CPLive
    /\ pc' = "cp_open"
    /\ mem' = load(file, mem)
    /\ UNCHANGED <<today, file, cpBinding, loc, tasks, db, res, hist>>

\* start_new_run(topics)
CPStartNewRun ==
    /\ CPLive
    /\ pc' = "cp_open"
    /\ mem' = Held(start_new_run(broad_topics, today))
    /\ file' = save(mem', file)
    /\ hist' = [NewRunHist(hist, today) EXCEPT !.saved_day = today]
    /\ UNCHANGED <<today, cpBinding, loc, tasks, db, res>>

\* mark_topic_complete(topic, tweets)
CPMark ==
    /\ CPLive
    /\ mem.has
    /\ \E topic \in Topics : \E tweets \in SearchResults(topic) :
        /\ tweets # <<>> => Len(mem.st.broad_tweets) < MaxMarks * ItemsPerTopic
        /\ mem' = Held(mark_topic_complete(mem.st, topic, tweets))
        /\ file' = save(mem', file)
        /\ hist' = [MarkedHist(hist, mem.st, topic, tweets) EXCEPT
                        !.saved_day = today, !.unretried = {}, !.coop = TRUE]
    /\ pc' = "cp_open"
    /\ UNCHANGED <<today, cpBinding, loc, tasks, db, res>>

\* complete_step1()
CPStep1 ==
    /\ CPLive
    /\ mem.has
    /\ mem' = Held(complete_step1(mem.st))
    /\ file' = save(mem', file)
    /\ hist' = [hist EXCEPT !.saved_day = today]
    /\ pc' = "cp_open"
    /\ UNCHANGED <<today, cpBinding, loc, tasks, db, res>>

\* complete_step2()
CPStep2 ==
    /\ CPLive
    /\ mem.has
    /\ mem' = Held(complete_step2(mem.st))
    /\ file' = save(mem', file)
    /\ hist' = [hist EXCEPT !.saved_day = today]
    /\ pc' = "cp_open"
    /\ UNCHANGED <<today, cpBinding, loc, tasks, db, res>>

\* set_error(error)
CPSetError ==
    /\ CPLive
    /\ mem.has
    /\ mem' = Held(set_error(mem.st, "OperationalError"))
    /\ file' = save(mem', file)
    /\ hist' = [hist EXCEPT !.saved_day = today]
    /\ pc' = "cp_open"
    /\ UNCHANGED <<today, cpBinding, loc, tasks, db, res>>

\* clear()
CPClear ==
    /\ CPLive
    /\ file' = clear_file
    /\ mem' = NoState
    /\ pc' = "cp_open"
    /\ UNCHANGED <<today, cpBinding, loc, tasks, db, res, hist>>

\* the manager goes away with its process; the file stays
CPClose ==
    /\ CPLive
    /\ pc' = "cp_closed"
    /\ mem' = NoState
    /\ UNCHANGED <<today, file, cpBinding, loc, tasks, db, res, hist>>

\* the process dies inside a save() (checkpoint.py:137-138)
CPCrashInSave ==
    /\ CPLive
    /\ mem.has
    /\ file' = TornFile
    /\ pc' = "cp_closed"
    /\ mem' = NoState
    /\ UNCHANGED <<today, cpBinding, loc, tasks, db, res, hist>>

InitCP ==
    /\ today = 1
    /\ file = NoFile
    /\ mem = NoState
    /\ cpBinding = "src"
    /\ pc = "cp_closed"
    /\ loc = LocInit
    /\ tasks = <<>>
    /\ db = EmptyDb
    /\ res = ResInit
    /\ hist = HistInit

NextCP ==
    \/ CPNew \/ CPShouldResume \/ CPLoad \/ CPStartNewRun \/ CPMark \/ CPStep1
    \/ CPStep2 \/ CPSetError \/ CPClear \/ CPClose \/ CPCrashInSave \/ DayAdvance

SpecCP == InitCP /\ [][NextCP]_vars

----------------------------------------------------------------------------
(* Properties of run_pipeline (Spec) *)

HappyInvocationOver ==
    /\ pc = "idle"
    /\ hist.runs > 0
    /\ hist.fresh
    /\ hist.coop
    /\ res.kind \in {"true", "false", "raised"}

\* C2: from no checkpoint, with topics [a, b] each returning their items on the
\* first attempt, run_pipeline stores the items, finalizes the run, clears the
\* checkpoint and returns True.
C2_HappyPathReturnsTrue ==
    HappyInvocationOver =>
        /\ res.kind = "true"
        /\ file.kind = "absent"
        /\ db.runs[strftime(hist.run_day)].completed_at # None
        /\ db.runs[strftime(hist.run_day)].tweet_count >= Len(broad_topics) * ItemsPerTopic

\* C3: an invocation that follows a failed invocation of the same run on the same
\* day, and in which the source returns items for every topic asked and storage
\* works, returns True.
C3_FailureIsRecoverable ==
    (/\ pc = "idle"
     /\ hist.after_failure
     /\ hist.coop
     /\ res.kind \in {"true", "false", "raised"})
        => res.kind = "true"

\* the topics of broad_topics not in C, in their original order
OriginalMinus(C) == SelectSeq(broad_topics, LAMBDA t : ~InSeq(t, C))

\* C4: a restart on the same day after the process stopped in the fetch stage,
\* with mark_topic_complete returned for the topics C with items, resumes with
\* topics_completed = C, topics_remaining = the original topics minus C, and
\* get_broad_tweets() equal to the items recorded for C, in order.
C4_ResumeAfterStopInFetch ==
    (/\ pc = "resolve"
     /\ hist.after_stop = "fetch"
     /\ hist.C # <<>>)
        => /\ loc.resuming
           /\ mem.has
           /\ mem.st.topics_completed = hist.C
           /\ mem.st.topics_remaining = OriginalMinus(hist.C)
           /\ get_broad_tweets(mem.st) = hist.items

\* C6: a topic whose fetch returned nothing and was scheduled for a retry is
\* fetched again before step 1 is marked complete.
C6_EmptyTopicRefetchedBeforeStep1 ==
    (mem.has /\ mem.st.step1_complete) => hist.unretried = {}

\* topics_completed and topics_remaining are disjoint and together hold the
\* original topics
Partition(st) ==
    /\ SeqSet(st.topics_completed) \cap SeqSet(st.topics_remaining) = {}
    /\ SeqSet(st.topics_completed) \cup SeqSet(st.topics_remaining) = SeqSet(broad_topics)

\* C7: after start_new_run(topics), in memory and on disk, topics_completed and
\* topics_remaining are disjoint and their union is the original topic list.
C7_Partition ==
    /\ mem.has => Partition(mem.st)
    /\ file.kind = "json" => Partition(file.st)

\* a resumed run is fetching, with one topic completed and one remaining
C7_Witness ==
    /\ pc = "gather"
    /\ loc.resuming
    /\ mem.has
    /\ mem.st.topics_completed = <<"a">>
    /\ mem.st.topics_remaining = <<"b">>
    /\ file.kind = "json"

\* checkpoint.clear() runs in this step
ClearStep ==
    \/ pc = "clear" /\ res'.kind = "true"
    \/ file.kind # "absent" /\ file'.kind = "absent"

\* run_pipeline exits in this step by failure or interruption, having had a
\* checkpoint file
FailedExitStep ==
    /\ pc # "idle"
    /\ pc' = "idle"
    /\ res'.kind \in {"false", "raised", "interrupted"}
    /\ hist'.had_file

----------------------------------------------------------------------------
(* Error handling of run_pipeline (Spec, SpecIO) *)

\* the progress a checkpoint state records: topic lists, items and stage flags
Progress(st) ==
    <<st.topics_completed, st.topics_remaining, st.broad_tweets,
      st.step1_complete, st.step2_complete>>

\* the `except Exception` handler of run_pipeline ends the call in this step
HandledStep == pc = "except" /\ pc' = "idle" /\ res'.kind # "crashed"

\* C11: when an exception other than an operator interruption is raised inside
\* the fetch, expand or store stage, run_pipeline records the error string in
\* the checkpoint's error field, does not clear it, does not re-raise and returns
\* False; the progress in the checkpoint is that of the last successful write.
C11_FailureRecorded ==
    [][HandledStep =>
        /\ res'.kind = "false"
        /\ file'.kind = "json"
        /\ file'.st.error = loc.error
        /\ file.kind = "json" => Progress(file'.st) = Progress(file.st)]_vars

\* the operator's interruption ends run_pipeline in this step
InterruptedStep == hist'.interrupted /\ ~hist.interrupted

\* the topics whose fetch is in flight
InFlight == {tasks[k].topic : k \in {j \in 1..Len(tasks) : ~tasks[j].done}}

\* the checkpoint state holds an item of topic t
HoldsItemOf(st, t) ==
    \E i \in 1..Len(st.broad_tweets) : \E j \in 1..ItemsPerTopic :
        st.broad_tweets[i].id = SourceItems(t)[j].id

\* C12: an interruption at a suspension point propagates out of run_pipeline, the
\* checkpoint is not cleared, and the persisted checkpoint holds only topics
\* whose mark_topic_complete call finished, with their complete item lists, and
\* no item of a topic still being fetched.
C12_InterruptionPropagates ==
    [][InterruptedStep =>
        /\ res'.kind = "interrupted"
        /\ file' = file
        /\ hist.had_file => file.kind # "absent"
        /\ file.kind = "json" =>
            /\ \A t \in SeqSet(file.st.topics_completed) :
                  t \in hist.nonempty \/ hist.empties[t] > MAX_RETRIES
            /\ get_broad_tweets(file.st) = hist.items
            /\ \A t \in InFlight : ~HoldsItemOf(file.st, t)]_vars

\* the run was interrupted in the fetch stage with topic a recorded and topic b
\* not yet
C12_Witness ==
    /\ pc = "idle"
    /\ hist.interrupted
    /\ res.kind = "interrupted"
    /\ res.stage = "fetch"
    /\ file.kind = "json"
    /\ file.st.topics_completed = <<"a">>
    /\ Len(file.st.broad_tweets) = ItemsPerTopic
    /\ file.st.topics_remaining = <<"b">>

\* run_pipeline is called and returns at the configuration check (main.py:37-41)
InvalidConfigStep == pc = "idle" /\ pc' = "idle" /\ hist'.runs = hist.runs + 1

\* C13: if config.validate() reports an error, run_pipeline returns False
\* without creating, loading or modifying a checkpoint, without creating the
\* scraper or the store, and without any fetch or storage call.
C13_ValidationFailsClosed ==
    [][InvalidConfigStep =>
        /\ res'.kind = "false"
        /\ file' = file
        /\ mem' = NoState
        /\ hist'.created = {}
        /\ tasks' = <<>>
        /\ db' = db]_vars

\* a second invocation returned at the configuration check and left the
\* checkpoint of the first in place
C13_Witness ==
    /\ pc = "idle"
    /\ hist.runs = 2
    /\ res.kind = "false"
    /\ res.stage = "init"
    /\ hist.created = {}
    /\ file.kind = "json"

\* run_pipeline leaves the test of line 116 in this step, the combined item list
\* (checkpoint items plus the items fetched in this invocation) being empty
NothingToStoreStep ==
    /\ pc = "check"
    /\ loc.broad_tweets = <<>>
    /\ pc' # "check"
    /\ res'.kind # "crashed"

\* the positions of reply expansion, storage and finalization
ExpandOrStore == {"replies", "store", "store_replies", "complete_run", "step2", "clear"}

\* C14: if the combined item set is empty after the fetch stage, run_pipeline
\* returns False, never invokes reply expansion, store_tweets or complete_run,
\* and does not clear the checkpoint.
C14_NothingToStore ==
    [][/\ NothingToStoreStep =>
            /\ pc' = "idle"
            /\ res'.kind = "false"
            /\ file' = file
            /\ file.kind # "absent"
            /\ db' = db
       /\ pc' \in ExpandOrStore => mem'.st.broad_tweets # <<>>]_vars

\* run_pipeline returned False after a fetch stage that collected nothing; the
\* checkpoint is in place and no row was stored
C14_Witness ==
    /\ pc = "idle"
    /\ res.kind = "false"
    /\ res.stage = "other"
    /\ file.kind = "json"
    /\ file.st.step1_complete
    /\ file.st.broad_tweets = <<>>
    /\ file.st.error = ""
    /\ db.tweets = {}
    /\ hist.runs = 1

\* C15: when the account pool reports total == 0, run_pipeline returns False
\* without invoking the fetch engine, reply expansion, store_tweets or
\* complete_run.
C15_NoAccounts ==
    [][/\ (pc = "stats" /\ pc' = "step1") => loc'.total # Some(0)
       /\ (pc = "stats" /\ pc' = "idle" /\ res'.kind = "false") =>
            /\ file' = file
            /\ db' = db
            /\ tasks' = <<>>]_vars

\* run_pipeline returned False from the account check, scraper and store created
C15_Witness ==
    /\ pc = "idle"
    /\ res.kind = "false"
    /\ res.stage = "accounts"
    /\ hist.created = {"scraper", "store"}
    /\ file.kind = "json"
    /\ file.st.topics_remaining = broad_topics
    /\ db.tweets = {}

----------------------------------------------------------------------------
(* Properties of CheckpointManager (SpecCP) *)

\* mark_topic_complete(t, []) returns in this step, t being in topics_remaining
EmptyMarkStep(t) ==
    /\ mem.has
    /\ mem'.has
    /\ InSeq(t, mem.st.topics_remaining)
    /\ hist'.empties[t] = hist.empties[t] + 1

\* C5: for a topic in topics_remaining, the first three calls
\* mark_topic_complete(topic, []) leave it in topics_remaining and out of
\* topics_completed, leave the collected items unchanged and set
\* retry_counts[topic] to 1, 2, 3; the fourth moves it to topics_completed and
\* appends no items.
C5_RetryExhaustion ==
    [][\A t \in Topics :
        EmptyMarkStep(t) =>
            /\ mem'.st.broad_tweets = mem.st.broad_tweets
            /\ DictGet(mem.st.retry_counts, t, 0) = Min(hist.empties[t], MAX_RETRIES)
            /\ IF hist.empties[t] < 3
               THEN /\ InSeq(t, mem'.st.topics_remaining)
                    /\ ~InSeq(t, mem'.st.topics_completed)
                    /\ mem'.st.retry_counts[t] = hist.empties[t] + 1
               ELSE /\ ~InSeq(t, mem'.st.topics_remaining)
                    /\ InSeq(t, mem'.st.topics_completed)
                    /\ mem'.st.retry_counts[t] = 3]_vars

\* the fourth empty result has moved topic a to topics_completed
C5_Witness ==
    /\ mem.has
    /\ hist.empties["a"] = 4
    /\ "a" \notin hist.nonempty
    /\ InSeq("a", mem.st.topics_completed)
    /\ mem.st.retry_counts["a"] = 3
    /\ mem.st.broad_tweets = <<>>

\* every completed topic of st had a non-empty result, or three recorded retries
\* and a further empty result
Earned(st) ==
    \A i \in 1..Len(st.topics_completed) :
        LET t == st.topics_completed[i] IN
        \/ t \in hist.nonempty
        \/ /\ DictGet(st.retry_counts, t, 0) = MAX_RETRIES
           /\ hist.empties[t] >= MAX_RETRIES + 1

\* C8: each topic in topics_completed had a mark_topic_complete call with at
\* least one item, or retry_counts[topic] = 3 and a further empty result.
C8_CompletionEarned ==
    /\ mem.has => Earned(mem.st)
    /\ file.kind = "json" => Earned(file.st)

\* one topic completed by its items, the other by exhausting its retries
C8_Witness ==
    /\ file.kind = "json"
    /\ file.st.topics_remaining = <<>>
    /\ "a" \in hist.nonempty
    /\ "b" \notin hist.nonempty
    /\ hist.empties["b"] = MAX_RETRIES + 1

\* should_resume() returns in this step
AskedStep == pc = "cp_open" /\ pc' = "cp_asked"

\* C9 (as claimed): should_resume() is true iff a readable checkpoint exists, its
\* run_id is today's and step2_complete is false; a checkpoint saved on day D
\* with step2_complete false is resumed on day D and on no other day.
C9_ResumeIffSavedToday ==
    [][AskedStep =>
        /\ res'.kind = "resume" <=>
              (/\ file.kind = "json"
               /\ file.st.run_id = strftime(today)
               /\ ~file.st.step2_complete)
        /\ (file.kind = "json" /\ ~file.st.step2_complete) =>
              (res'.kind = "resume" <=> hist.saved_day = today)]_vars

\* C9 (amended): should_resume() is true iff a readable checkpoint exists, its
\* run_id is today's and step2_complete is false; a checkpoint of a run started
\* on day D with step2_complete false is resumed on day D and on no other day;
\* a checkpoint with step2_complete true is never resumed.
C9_ResumeIffStartedToday ==
    [][AskedStep =>
        /\ res'.kind = "resume" <=>
              (/\ file.kind = "json"
               /\ file.st.run_id = strftime(today)
               /\ ~file.st.step2_complete)
        /\ (file.kind = "json" /\ ~file.st.step2_complete) =>
              (res'.kind = "resume" <=> hist.run_day = today)
        /\ (file.kind = "json" /\ file.st.step2_complete) => res'.kind = "fresh"]_vars

\* a second manager has been told to resume a run with a completed topic
C9_Witness ==
    /\ pc = "cp_asked"
    /\ res.kind = "resume"
    /\ mem.has
    /\ mem.st.topics_completed # <<>>
    /\ ~mem.st.step2_complete

----------------------------------------------------------------------------
(* Properties of get_broad_tweets_incremental (SpecEngine) *)

LogIndex == 1..Len(hist.log)

\* C16: for every topic of every batch, on_topic_complete(topic, items) is
\* invoked exactly once per attempt, whatever the outcome of the attempt (items,
\* zero items, or an exception raised inside process_topic); never twice, and
\* never skipped for a topic of a batch that ran.
C16_CallbackExactlyOnce ==
    /\ \A i \in LogIndex : Len(hist.log[i].calls) = 1
    /\ pc = "batch" =>
        /\ Len(hist.log) = loc.topic_index
        /\ {hist.log[i].topic : i \in LogIndex} =
              SeqSet(SubSeq(loc.remaining, 1, loc.topic_index))

\* the newest entry of the log after this step
Newest == hist'.log[Len(hist'.log)]

\* the search of one topic raises in this step, and the callback does not
FetchFailedStep ==
    /\ Len(hist'.log) = Len(hist.log) + 1
    /\ Newest.raised
    /\ Newest.fails = 0

RECURSIVE Accumulated(_)
\* the items of the logged attempts whose search returned items, in log order
Accumulated(log) ==
    IF log = <<>> THEN <<>>
    ELSE Accumulated(SubSeq(log, 1, Len(log) - 1)) \o
         (IF log[Len(log)].calls[1] > 0 THEN SourceItems(log[Len(log)].topic)
          ELSE <<>>)

\* C17: a failure of one topic's fetch is treated as zero items for that topic;
\* it does not abort the other fetch of the batch, does not prevent later
\* batches, and the operation returns the items accumulated over all batches
\* without raising.
C17_TopicFailureIsolated ==
    [][/\ FetchFailedStep =>
            /\ ~Newest.escapes
            /\ Newest.calls = <<0>>
            /\ pc' = "gather"
            /\ loc'.all_tweets = loc.all_tweets
            /\ \A j \in 1..Len(tasks) :
                  tasks[j].topic # Newest.topic => tasks'[j] = tasks[j]
       /\ (pc' = "eng_done" /\ res'.kind = "returned") =>
            /\ Len(hist'.log) = Len(loc'.remaining)
            /\ loc'.all_tweets = Accumulated(hist'.log)
       /\ (pc' = "eng_done" /\ res'.kind = "raised" /\ res'.stage = "CallbackError") =>
            hist'.log[Len(hist'.log)].fails >= 1]_vars

\* the engine returned after a batch in which one search raised and the other
\* returned items, and a later batch that returned items
C17_Witness ==
    /\ pc = "eng_done"
    /\ res.kind = "returned"
    /\ \E i, j, k \in LogIndex :
        /\ hist.log[i].raised /\ hist.log[i].batch = 0
        /\ hist.log[j].calls[1] > 0 /\ hist.log[j].batch = 0
        /\ hist.log[k].calls[1] > 0 /\ hist.log[k].batch = 1
    /\ Len(loc.all_tweets) >= 2 * ItemsPerTopic

\* the pool reported no active identity: active == 0, or no active count at all
NoActive == loc.reported = None \/ loc.reported = Some(0)

\* C18: when the pool reports no active identity, get_broad_tweets_incremental
\* assumes one worker slot (batch size 1, slot 0), attempts every remaining
\* topic and returns normally; it does not fail fast or raise.
C18_NoActiveIdentity ==
    [][(NoActive /\ pc = "batch" /\ pc' # "batch") =>
        /\ pc' \in {"gather", "complete1"}
        /\ pc' = "gather" => (Len(tasks') = 1 /\ tasks'[1].wid = 0)
        /\ pc' = "complete1" => Len(hist.log) = Len(loc.remaining)]_vars

\* the slots the rotation rule gives batch k: (k * batch_size + i) mod active_count
RuleSlots(k, active_count) ==
    {(k * Min(active_count, 2) + i) % active_count : i \in 0..Min(active_count, 2) - 1}

\* the slots the engine computes for batch k
SlotsOf(k) ==
    SeqSet(worker_slots(k, workers_per_batch(loc.active_count), loc.active_count))

\* the slots the attempts of batch k ran on
UsedSlots(k) ==
    {hist.log[i].wid : i \in {n \in LogIndex : hist.log[n].batch = k}}
        \cup {tasks[j].wid : j \in {n \in 1..Len(tasks) : loc.batch_number = k}}

\* the engine is in its batch loop, with at least one slot
InBatchLoop == pc \in {"batch", "gather"} /\ loc.active_count >= 1

\* the tasks of the batch in flight run on the slots of the rule, in order
TasksFollowRule ==
    /\ SlotsOf(loc.batch_number) = RuleSlots(loc.batch_number, loc.active_count)
    /\ \A j \in 1..Len(tasks) :
          tasks[j].wid = (loc.batch_number * Min(loc.active_count, 2) + (j - 1))
                             % loc.active_count

\* batch k and batch k + 1 share no slot, as computed and as run
ConsecutiveDisjoint(k) ==
    /\ SlotsOf(k) \cap SlotsOf(k + 1) = {}
    /\ UsedSlots(k) \cap UsedSlots(k + 1) = {}

\* C19 (as claimed): batch k uses the slots (k * batch_size + i) mod active_count,
\* i in 0..batch_size-1, batch_size = min(active_count, 2); for every
\* active_count > batch_size and every k the slot sets of batch k and batch k+1
\* are disjoint.
C19_RotationDisjointAboveBatchSize ==
    InBatchLoop =>
        /\ TasksFollowRule
        /\ loc.active_count > Min(loc.active_count, 2) =>
              \A k \in 0..loc.batch_number : ConsecutiveDisjoint(k)

\* C19 (amended): batch k uses the slots (k * batch_size + i) mod active_count,
\* i in 0..batch_size-1, batch_size = min(active_count, 2), active_count >= 1;
\* for every active_count >= 4 and every k the slot sets of batch k and batch
\* k+1 are disjoint.
C19_RotationDisjointFromFour ==
    InBatchLoop =>
        /\ TasksFollowRule
        /\ loc.active_count >= 4 =>
              \A k \in 0..loc.batch_number : ConsecutiveDisjoint(k)

\* the second batch is in flight on slots 2 and 3, after a first on slots 0 and 1
C19_Witness ==
    /\ pc = "gather"
    /\ loc.active_count >= 4
    /\ loc.batch_number = 1
    /\ UsedSlots(0) = {0, 1}
    /\ UsedSlots(1) = {2, 3}

\* the next batch begins in this step
NextBatchStep == loc'.batch_number = loc.batch_number + 1

\* C20: at every moment of get_broad_tweets_incremental at most
\* min(active_count, 2) topic fetches are in flight; batch k+1 starts only after
\* every fetch and callback of batch k has finished; the topics of one batch
\* have pairwise different worker slots.
C20_BoundedConcurrency ==
    [][/\ Cardinality(InFlight') <= Min(loc'.active_count, 2)
       /\ Len(tasks') <= 2
       /\ \A i, j \in 1..Len(tasks') : i # j => tasks'[i].wid # tasks'[j].wid
       /\ \A j \in 1..Len(tasks') :
             /\ tasks'[j].topic = loc'.remaining[loc'.topic_index + j]
             /\ tasks'[j].done <=> tasks'[j].calls >= 1
       /\ NextBatchStep =>
             /\ InFlight = {}
             /\ \A j \in 1..Len(tasks) : tasks[j].done /\ tasks[j].calls >= 1
             /\ tasks' = <<>>]_vars

\* two fetches of one batch are in flight on different slots
C20_Witness ==
    /\ pc = "gather"
    /\ loc.batch_number = 1
    /\ Len(tasks) = 2
    /\ Cardinality(InFlight) = 2
    /\ tasks[1].wid # tasks[2].wid

----------------------------------------------------------------------------
(* Skipping completed topics (Spec, SpecEngine) *)

\* the position of x in the list s
Pos(s, x) == CHOOSE i \in 1..Len(s) : s[i] = x

\* the list r holds exactly the topics of `topics` outside `skip`, in their order
IsTopicsMinusSkip(r, topics, skip) ==
    /\ SeqSet(r) = SeqSet(topics) \ SeqSet(skip)
    /\ \A i, j \in 1..Len(r) : i < j => Pos(topics, r[i]) < Pos(topics, r[j])

\* no item id occurs twice in the serialized items of a checkpoint state
NoRepeatedId(st) ==
    \A i, j \in 1..Len(st.broad_tweets) :
        i # j => st.broad_tweets[i].id # st.broad_tweets[j].id

\* a get_broad_tweets_incremental call is in its batch loop or has returned
EngineCalled ==
    \/ pc \in {"batch", "gather", "complete1"}
    \/ pc = "eng_done" /\ res.kind = "returned"

EngineReturns == pc \in {"complete1", "eng_done"}

\* C21: get_broad_tweets_incremental fetches exactly the topics of its topic list
\* that are not in skip_topics, in original order and consecutive batches, each
\* exactly once per invocation; a topic in skip_topics (already in
\* topics_completed when the pipeline resumes) is never fetched again and its
\* items are never appended to the checkpoint a second time.
C21_SkipOnResume ==
    /\ EngineCalled =>
        /\ IsTopicsMinusSkip(loc.remaining, loc.topics, loc.skip_topics)
        /\ \A j \in 1..Len(tasks) :
              /\ tasks[j].topic = loc.remaining[loc.topic_index + j]
              /\ ~InSeq(tasks[j].topic, loc.skip_topics)
              /\ tasks[j].done <=> tasks[j].topic \in DOMAIN loc.fetched
        /\ \A t \in DOMAIN loc.fetched :
              /\ loc.fetched[t] = 1
              /\ ~InSeq(t, loc.skip_topics)
        /\ DOMAIN loc.fetched =
              SeqSet(SubSeq(loc.remaining, 1, loc.topic_index))
                 \cup {tasks[j].topic : j \in {n \in 1..Len(tasks) : tasks[n].done}}
        /\ EngineReturns => DOMAIN loc.fetched = SeqSet(loc.topics) \ SeqSet(loc.skip_topics)
    /\ mem.has => NoRepeatedId(mem.st)
    /\ file.kind = "json" => NoRepeatedId(file.st)

\* a resumed invocation skipped topic a, fetched topic b once, and the
\* checkpoint holds the items of both topics
C21_Witness ==
    /\ pc = "complete1"
    /\ loc.resuming
    /\ loc.skip_topics = <<"a">>
    /\ loc.remaining = <<"b">>
    /\ DOMAIN loc.fetched = {"b"}
    /\ Len(mem.st.broad_tweets) = 2 * ItemsPerTopic
    /\ file.kind = "json"
    /\ Len(file.st.broad_tweets) = 2 * ItemsPerTopic

----------------------------------------------------------------------------
(* TwitterScraper driven directly: one call of search_tweets, or one call of     *)
(* fetch_replies_for_top_tweets followed through its loop (SpecScraper)          *)

MaxItems == 4        \* items handed to fetch_replies_for_top_tweets
MaxTopN == 2         \* top_n ranges over 0..MaxTopN
MaxReplies == 1      \* raw items one fetch retrieves before it ends

\* `x or 0` (scraper.py:72-74)
OrZero(x) == IF x = None THEN 0 ELSE x[1]

\* a twscrape Tweet, as far as from_twscrape reads it; `bad` marks a tweet whose
\* conversion raises
RawTweet(id, likeCount, retweetCount, bad) ==
    [id |-> id, likeCount |-> likeCount, retweetCount |-> retweetCount, bad |-> bad]

\* from_twscrape without the parent it is given
from_twscrape_untagged(tweet, parent_tweet_id) ==
    ScrapedTweet(tweet.id, OrZero(tweet.likeCount), OrZero(tweet.retweetCount), None)

\* scraper.py:58-80
from_twscrape(tweet, parent_tweet_id) ==
    ScrapedTweet(tweet.id, OrZero(tweet.likeCount), OrZero(tweet.retweetCount),
                 parent_tweet_id)

\* the conversion loops of scraper.py:266-272 and 470-476: a tweet whose
\* conversion raises is logged and left out
convert_all(raw, parent_tweet_id) ==
    LET good == SelectSeq(raw, LAMBDA tweet : ~tweet.bad)
    IN  [k \in 1..Len(good) |-> from_twscrape(good[k], parent_tweet_id)]

\* how the retrieval under asyncio.wait_for ends
Endings == {"complete", "timeout", "error"}

\* search_tweets (scraper.py:203, 236-284) for the raw tweets retrieved before the
\* retrieval ended: `tweets` is filled by the loop of line 266, which runs only
\* after wait_for returned
search_tweets(raw_tweets, ending) ==
    LET tweets == <<>> IN
    IF ending = "complete" THEN tweets \o convert_all(raw_tweets, None)
    ELSE IF ending = "timeout" THEN tweets
    ELSE <<>>

\* fetch_replies (scraper.py:449, 454-486), in the same way
fetch_replies(tweet_id, raw_replies, ending) ==
    LET replies == <<>> IN
    IF ending = "complete" THEN replies \o convert_all(raw_replies, Some(tweet_id))
    ELSE IF ending = "timeout" THEN replies
    ELSE <<>>

\* what api.search yields for a topic: up to ItemsPerTopic tweets, the first of
\* which may fail to convert
RawSearch(t) ==
    {[k \in 1..n |-> RawTweet(10 * TopicNo(t) + k, Some(k), None, bad /\ k = 1)] :
        n \in 0..ItemsPerTopic, bad \in BOOLEAN}

\* what api.tweet_replies yields for a tweet: up to MaxReplies replies
RawReplies(tweet_id) ==
    {[k \in 1..n |-> RawTweet(100 * tweet_id + k, Some(0), Some(0), bad /\ k = 1)] :
        n \in 0..MaxReplies, bad \in BOOLEAN}

\* the thread a reply of RawReplies belongs to
ThreadOf(reply_id) == reply_id \div 100

\* the items fetch_replies_for_top_tweets is handed: item n has the likes and
\* retweets below, so that the items 1, 2, 3, 4 score 10, 30, 30, 5
PoolLikes(n) == <<0, 10, 30, 5>>[((n - 1) % 4) + 1]
PoolRetweets(n) == <<10, 20, 0, 0>>[((n - 1) % 4) + 1]
PoolItem(n) == ScrapedTweet(n, PoolLikes(n), PoolRetweets(n), None)

\* every list of distinct items, of length 0..MaxItems
ItemLists ==
    LET shapes == UNION {[1..n -> 1..MaxItems] : n \in 0..MaxItems}
        distinct(f) == \A i, j \in DOMAIN f : i # j => f[i] # f[j]
    IN  {[k \in DOMAIN f |-> PoolItem(f[k])] : f \in {g \in shapes : distinct(g)}}

NoFetch == [op |-> "none", id |-> 0, raw |-> <<>>, ending |-> "none", result |-> <<>>]

ScInit ==
    [tweets |-> <<>>, top_n |-> 0,       \* the arguments
     top |-> <<>>,                       \* top_tweets
     i |-> 0,                            \* the loop index, counted from 1
     all_replies |-> <<>>,
     in_flight |-> 0,                    \* fetch_replies calls not yet returned
     events |-> <<>>,                    \* fetches and pacing delays, in order
     last |-> NoFetch]                   \* the fetch that returned last

\* the call returns `value`
ScReturn(value) ==
    /\ pc' = "sc_done"
    /\ res' = [kind |-> "returned", stage |-> "", value |-> value]

\* an exception leaves the call
ScRaise(exc) ==
    /\ pc' = "sc_done"
    /\ res' = [kind |-> "raised", stage |-> exc, value |-> <<>>]

\* search_tweets(topic): scraper.py:181-284
ScSearch ==
    /\ pc = "sc_idle"
    /\ \E t \in Topics : \E raw \in RawSearch(t) : \E ending \in Endings :
        LET result == search_tweets(raw, ending) IN
        /\ loc' = [loc EXCEPT !.last = [op |-> "search", id |-> TopicNo(t), raw |-> raw,
                                        ending |-> ending, result |-> result]]
        /\ ScReturn(result)
    /\ UNCHANGED <<today, file, mem, cpBinding, tasks, db, hist>>

\* fetch_replies_for_top_tweets(tweets, top_n): scraper.py:510-523
ScRepliesCall ==
    /\ pc = "sc_idle"
    /\ \E tweets \in ItemLists : \E top_n \in 0..MaxTopN :
        IF tweets = <<>>
        THEN /\ loc' = [loc EXCEPT !.tweets = tweets, !.top_n = top_n]
             /\ ScReturn(<<>>)
        ELSE LET sorted_tweets == SortedDesc(tweets)
                 top == SubSeq(sorted_tweets, 1, Min(top_n, Len(sorted_tweets)))
             IN  /\ loc' = [loc EXCEPT !.tweets = tweets, !.top_n = top_n, !.top = top,
                                       !.i = 1]
                 /\ IF top = <<>>
                    THEN \* top_tweets[0] in the log message of lines 517-521
                         ScRaise("IndexError")
                    ELSE /\ pc' = "sc_loop"
                         /\ UNCHANGED res
    /\ UNCHANGED <<today, file, mem, cpBinding, tasks, db, hist>>

\* scraper.py:525-531: the loop calls fetch_replies for top_tweets[i] and awaits it
ScFetchStart ==
    /\ pc = "sc_loop"
    /\ loc' = [loc EXCEPT !.in_flight = @ + 1,
                          !.events = Append(@, <<"fetch", loc.top[loc.i].id>>)]
    /\ pc' = "sc_await"
    /\ UNCHANGED <<today, file, mem, cpBinding, tasks, db, res, hist>>

\* a loop that sleeps after every fetch, the last one too
ScFetchEnd_always_pacing ==
    /\ pc = "sc_await"
    /\ \E raw \in RawReplies(loc.top[loc.i].id) : \E ending \in Endings :
        LET replies == fetch_replies(loc.top[loc.i].id, raw, ending) IN
        /\ loc' = [loc EXCEPT
                !.in_flight = @ - 1,
                !.all_replies = @ \o replies,
                !.last = [op |-> "replies", id |-> loc.top[loc.i].id, raw |-> raw,
                          ending |-> ending, result |-> replies],
                !.events = Append(@, <<"sleep", 0>>)]
        /\ pc' = "sc_sleep"
        /\ UNCHANGED res
    /\ UNCHANGED <<today, file, mem, cpBinding, tasks, db, hist>>

\* scraper.py:531-541: fetch_replies returns; extend all_replies, then start the
\* pacing delay if this was not the last item, else return all_replies
ScFetchEnd ==
    /\ pc = "sc_await"
    /\ \E raw \in RawReplies(loc.top[loc.i].id) : \E ending \in Endings :
        LET replies == fetch_replies(loc.top[loc.i].id, raw, ending) IN
        /\ loc' = [loc EXCEPT
                !.in_flight = @ - 1,
                !.all_replies = @ \o replies,
                !.last = [op |-> "replies", id |-> loc.top[loc.i].id, raw |-> raw,
                          ending |-> ending, result |-> replies],
                !.events = IF loc.i < Len(loc.top) THEN Append(@, <<"sleep", 0>>) ELSE @]
        /\ IF loc.i < Len(loc.top)
           THEN /\ pc' = "sc_sleep"
                /\ UNCHANGED res
           ELSE ScReturn(loc.all_replies \o replies)
    /\ UNCHANGED <<today, file, mem, cpBinding, tasks, db, hist>>

\* scraper.py:535-538: the pacing delay is over; the loop takes the next item
ScSlept ==
    /\ pc = "sc_sleep"
    /\ loc.i < Len(loc.top)
    /\ loc' = [loc EXCEPT !.i = @ + 1]
    /\ pc' = "sc_loop"
    /\ UNCHANGED <<today, file, mem, cpBinding, tasks, db, res, hist>>

InitScraper ==
    /\ today = 1
    /\ file = NoFile
    /\ mem = NoState
    /\ cpBinding = "src"
    /\ pc = "sc_idle"
    /\ loc = ScInit
    /\ tasks = <<>>
    /\ db = EmptyDb
    /\ res = ResInit
    /\ hist = HistInit

NextScraper == ScSearch \/ ScRepliesCall \/ ScFetchStart \/ ScFetchEnd \/ ScSlept

SpecScraper == InitScraper /\ [][NextScraper]_vars

----------------------------------------------------------------------------
(* Properties of search_tweets, fetch_replies and fetch_replies_for_top_tweets   *)
(* (SpecScraper)                                                                 *)

\* the parent a fetch tags its items with: the tweet of a reply fetch, none for a
\* search
ParentOf(fetch) == IF fetch.op = "replies" THEN Some(fetch.id) ELSE None

\* C22: when a per-topic search (safety timeout 1200) or a per-thread reply fetch
\* (safety timeout 600) exceeds its safety timeout after having retrieved k >= 0
\* items, the operation returns those k items, converted to normalized records,
\* and raises nothing.
C22_PartialOnTimeout ==
    loc.last.ending = "timeout" =>
        /\ loc.last.result = convert_all(loc.last.raw, ParentOf(loc.last))
        /\ res.kind # "raised"

\* the position in the list `tweets` of the item with this id
PosById(tweets, id) == CHOOSE i \in 1..Len(tweets) : tweets[i].id = id

\* item x ranks before item y: a higher likes + retweets, or the same and an
\* earlier place in the list handed in
RanksBefore(tweets, x, y) ==
    \/ x.likes + x.retweets > y.likes + y.retweets
    \/ /\ x.likes + x.retweets = y.likes + y.retweets
       /\ PosById(tweets, x.id) < PosById(tweets, y.id)

\* fetch_replies_for_top_tweets has selected its items
Selected == pc \in {"sc_loop", "sc_await", "sc_sleep"} \/ (pc = "sc_done" /\ loc.top # <<>>)

\* the items that score 10, 30, 30, 5
ExampleItems == <<PoolItem(1), PoolItem(2), PoolItem(3), PoolItem(4)>>

\* C23: fetch_replies_for_top_tweets selects items in descending order of likes +
\* retweets, and items with equal score keep their original relative order; for
\* items with scores [10, 30, 30, 5] and top_n = 2 the selected items are the two
\* score-30 items, the earlier one first.
C23_EngagementRanking ==
    Selected =>
        /\ \A i, j \in 1..Len(loc.top) :
              i < j => RanksBefore(loc.tweets, loc.top[i], loc.top[j])
        /\ \A i \in 1..Len(loc.top) : \A k \in 1..Len(loc.tweets) :
              \/ \E j \in 1..Len(loc.top) : loc.top[j] = loc.tweets[k]
              \/ RanksBefore(loc.tweets, loc.top[i], loc.tweets[k])
        /\ (loc.tweets = ExampleItems /\ loc.top_n = 2) =>
              loc.top = <<PoolItem(2), PoolItem(3)>>

\* the items scoring [10, 30, 30, 5] were handed in with top_n = 2 and the two
\* score-30 items were selected, the earlier one first
C23_Witness ==
    /\ pc = "sc_loop"
    /\ loc.tweets = ExampleItems
    /\ loc.top_n = 2
    /\ loc.top = <<PoolItem(2), PoolItem(3)>>

\* the fetch_replies calls made so far, and the pacing delays started so far
FetchCount == Cardinality({k \in 1..Len(loc.events) : loc.events[k][1] = "fetch"})
SleepCount == Cardinality({k \in 1..Len(loc.events) : loc.events[k][1] = "sleep"})

\* a fetch_replies_for_top_tweets call is over
RepliesCallOver == pc = "sc_done" /\ loc.last.op # "search"

\* C24: for every item list and every top_n >= 0, fetch_replies_for_top_tweets
\* performs exactly min(top_n, len(items)) reply-thread fetches and returns
\* normally; for an empty item list it returns an empty list without invoking the
\* reply fetch at all.
C24_TopNSize ==
    RepliesCallOver =>
        /\ res.kind = "returned"
        /\ FetchCount = Min(loc.top_n, Len(loc.tweets))
        /\ loc.tweets = <<>> => (res.value = <<>> /\ FetchCount = 0)

\* every item of the list `replies` is tagged with the tweet whose thread it came
\* from, and that tweet is one of the first n selected items
TaggedWithThread(replies, n) ==
    \A k \in 1..Len(replies) :
        /\ replies[k].parent_tweet_id = Some(ThreadOf(replies[k].id))
        /\ \E j \in 1..n : loc.top[j].id = ThreadOf(replies[k].id)

\* C25: every item returned by fetch_replies_for_top_tweets has parent_tweet_id
\* equal to the id of the selected top-N item whose thread it was fetched from,
\* and no top-level (broad) item produced by search_tweets has a parent_tweet_id.
C25_ReplyTagging ==
    /\ TaggedWithThread(loc.all_replies, Min(loc.i, Len(loc.top)))
    /\ RepliesCallOver /\ res.kind = "returned" =>
          /\ res.value = loc.all_replies
          /\ TaggedWithThread(res.value, Len(loc.top))
    /\ loc.last.op = "search" =>
          /\ res.value = loc.last.result
          /\ \A k \in 1..Len(res.value) : res.value[k].parent_tweet_id = None

\* the call returned replies of two threads, each tagged with its own parent
C25_Witness ==
    /\ RepliesCallOver
    /\ res.kind = "returned"
    /\ Len(loc.top) = 2
    /\ \E a, b \in 1..Len(res.value) :
          /\ res.value[a].parent_tweet_id = Some(loc.top[1].id)
          /\ res.value[b].parent_tweet_id = Some(loc.top[2].id)

\* a fetch_replies call ends in this step by its safety timeout or by an error
FailedFetchStep ==
    /\ pc = "sc_await"
    /\ pc' # "sc_await"
    /\ loc'.last.ending \in {"timeout", "error"}

\* fetches and pacing delays alternate, beginning with a fetch, and the k-th fetch
\* is the fetch of the k-th selected item
Paced ==
    /\ \A k \in 1..Len(loc.events) :
          IF k % 2 = 1
          THEN loc.events[k] = <<"fetch", loc.top[(k + 1) \div 2].id>>
          ELSE loc.events[k][1] = "sleep"
    /\ SleepCount <= Len(loc.top) - 1 \/ loc.events = <<>>

\* C26: reply threads are fetched one at a time (never two in flight), a failure
\* of one thread's fetch contributes zero items and every remaining selected item
\* still gets its fetch, and a pacing delay is inserted between successive
\* fetches but not after the last one.
C26_SequentialIsolated ==
    [][/\ loc'.in_flight <= 1
       /\ loc'.in_flight = 1 <=> pc' = "sc_await"
       /\ Paced'
       /\ FailedFetchStep =>
            /\ loc'.all_replies = loc.all_replies
            /\ res'.kind # "raised"
            /\ loc.i < Len(loc.top) => pc' = "sc_sleep"
       /\ pc' = "sc_sleep" => (loc'.i < Len(loc'.top) /\ SleepCount' = FetchCount')
       /\ (RepliesCallOver' /\ loc'.top # <<>>) =>
            /\ res'.kind = "returned"
            /\ FetchCount' = Len(loc'.top)
            /\ SleepCount' = Len(loc'.top) - 1]_vars

\* the fetch of the first selected item failed and contributed nothing, the
\* pacing delay followed, and the fetch of the second item is in flight
C26_Witness ==
    /\ pc = "sc_await"
    /\ loc.i = 2
    /\ loc.in_flight = 1
    /\ loc.last.id = loc.top[1].id
    /\ loc.last.ending = "error"
    /\ loc.all_replies = <<>>
    /\ loc.events = <<<<"fetch", loc.top[1].id>>, <<"sleep", 0>>, <<"fetch", loc.top[2].id>>>>

----------------------------------------------------------------------------
(* TweetStore driven through its public operations, the way                     *)
(* tests/unit/test_storage.py drives it (SpecStore)                             *)

MaxBatch == 2        \* items in one store_tweets call

\* the run ids of the store's callers
StoreRuns == {strftime(1), strftime(2)}

\* the topic tags run_pipeline stores under (main.py:148, 153)
StoreTopics == {"broad", "replies"}

\* the tweet ids of the store's callers
StoreIds == {1, 2}

\* the lists handed to store_tweets: ids may repeat within a list
StoreLists ==
    {[k \in DOMAIN f |-> ScrapedTweet(f[k], 0, 0, None)] :
        f \in UNION {[1..n -> StoreIds] : n \in 0..MaxBatch}}

\* datetime.now() at a call of start_run: later than at every call before it
\* that recorded a run
StoreClock(d) == Cardinality(DOMAIN d.runs) + 1

\* an operation of the store, called for run_id and the tweet ids `ids`, returned
\* `value`
Answered(op, run_id, ids, value) ==
    res' = [kind |-> op, stage |-> "", run_id |-> run_id, ids |-> ids, value |-> value]

\* start_run(run_id)
StStartRun ==
    /\ pc = "st_open"
    /\ \E run_id \in StoreRuns :
        /\ db' = start_run(db, run_id, StoreClock(db))
        /\ Answered("start_run", run_id, {}, None)
    /\ UNCHANGED <<today, file, mem, cpBinding, pc, loc, tasks, hist>>

\* store_tweets(tweets, run_id, topic), for a run that was started
StStoreTweets ==
    /\ pc = "st_open"
    /\ \E run_id \in DOMAIN db.runs : \E tweets \in StoreLists : \E topic \in StoreTopics :
        /\ Cardinality(db.tweets) + Len(tweets)
              <= Cardinality(StoreIds) * Cardinality(StoreRuns) + MaxBatch
        /\ db' = store_tweets(db, tweets, run_id, topic)
        /\ Answered("store_tweets", run_id, {tweets[k].id : k \in 1..Len(tweets)},
                    inserted(db.tweets, tweets, run_id, topic))
    /\ UNCHANGED <<today, file, mem, cpBinding, pc, loc, tasks, hist>>

\* complete_run(run_id), of a run that was started and not completed before
StCompleteRun ==
    /\ pc = "st_open"
    /\ \E run_id \in DOMAIN db.runs :
        /\ run_id \notin DOMAIN db.finalized
        /\ db' = complete_run(db, run_id)
        /\ Answered("complete_run", run_id, {}, get_run_count(db, run_id))
    /\ UNCHANGED <<today, file, mem, cpBinding, pc, loc, tasks, hist>>

InitStore ==
    /\ today = 1
    /\ file = NoFile
    /\ mem = NoState
    /\ cpBinding = "src"
    /\ pc = "st_open"
    /\ loc = LocInit
    /\ tasks = <<>>
    /\ db = EmptyDb
    /\ res = ResInit
    /\ hist = HistInit

NextStore == StStartRun \/ StStoreTweets \/ StCompleteRun

SpecStore == InitStore /\ [][NextStore]_vars

----------------------------------------------------------------------------
(* Properties of TweetStore (SpecStore) *)

\* the rows of the table that run_id holds for tweet_id
RowsOf(rows, tweet_id, run_id) ==
    {r \in rows : r.tweet_id = tweet_id /\ r.run_id = run_id}

\* no run holds two rows of one tweet id
NoDuplicateRow(rows) ==
    \A r \in rows : Cardinality(RowsOf(rows, r.tweet_id, r.run_id)) = 1

\* C27: after any sequence of store_tweets calls, the stored rows of one run_id
\* contain each tweet id at most once (also when the same id occurs twice in
\* one call or under different topic tags), store_tweets returns the number of
\* rows it actually inserted, and the same id stored under two different
\* run_ids is stored once in each run.
C27_DedupWithinRun ==
    [][/\ NoDuplicateRow(db'.tweets)
       /\ res'.kind = "store_tweets" =>
            /\ db.tweets \subseteq db'.tweets
            /\ res'.value = Cardinality(db'.tweets) - Cardinality(db.tweets)
            /\ \A r \in db'.tweets \ db.tweets :
                  r.run_id = res'.run_id /\ r.tweet_id \in {str(id) : id \in res'.ids}
            /\ \A id \in res'.ids :
                  Cardinality(RowsOf(db'.tweets, str(id), res'.run_id)) = 1]_vars

\* tweet 1 is stored in both runs, once each, and a further store_tweets call
\* for it, under the other topic tag, inserted nothing
C27_Witness ==
    /\ res.kind = "store_tweets"
    /\ res.ids = {1}
    /\ res.value = 0
    /\ Cardinality(db.tweets) = 2
    /\ \A run_id \in StoreRuns : Cardinality(RowsOf(db.tweets, str(1), run_id)) = 1
    /\ \E r \in db.tweets : r.run_id = res.run_id /\ r.topic = "broad"

\* the tweet ids of a list of tweets
IdsOf(tweets) == {tweets[k].id : k \in 1..Len(tweets)}

\* the effect of complete_run(run_id) on the database d, and the count it returned
Completes(d, d2, run_id, count) ==
    /\ count = get_run_count(d, run_id)
    /\ d2.tweets = d.tweets
    /\ DOMAIN d2.runs = DOMAIN d.runs
    /\ \A r \in DOMAIN d.runs \ {run_id} : d2.runs[r] = d.runs[r]
    /\ run_id \in DOMAIN d.runs =>
          /\ d2.runs[run_id].tweet_count = count
          /\ d2.runs[run_id].completed_at # None
          /\ d2.runs[run_id].started_at = d.runs[run_id].started_at

\* complete_run on its own: it returns the number of rows of run_id at that
\* moment, writes it to the run's tweet_count, stamps completed_at and changes
\* no other run and no row (SpecStore)
C28_StoreCount ==
    [][res'.kind = "complete_run" /\ <<db, res>>' # <<db, res>> =>
            Completes(db, db', res'.run_id, res'.value)]_vars

\* a run that holds rows was completed, and the other run was left as it was
C28_StoreWitness ==
    /\ res.kind = "complete_run"
    /\ res.value = 2
    /\ db.runs[res.run_id].tweet_count = 2
    /\ \E r \in DOMAIN db.runs \ {res.run_id} :
          db.runs[r].completed_at = None /\ get_run_count(db, r) = 1

NewRun(now) ==
    [started_at |-> Some(<<"datetime", now>>), completed_at |-> None, tweet_count |-> 0]

\* C29: start_run is idempotent: calling start_run(run_id) any number of times
\* leaves exactly one Run record for run_id, with the started_at of the first
\* call and completed_at unchanged (null until complete_run).
C29_StartRunIdempotent ==
    [][/\ \A r \in DOMAIN db.runs :
            /\ r \in DOMAIN db'.runs
            /\ db'.runs[r].started_at = db.runs[r].started_at
            /\ db'.runs[r].completed_at # db.runs[r].completed_at =>
                  res'.kind = "complete_run" /\ res'.run_id = r
       /\ \A r \in DOMAIN db'.runs :
            db'.runs[r].completed_at = None <=> r \notin DOMAIN db'.finalized
       /\ res'.kind = "start_run" =>
            /\ res'.value = None
            /\ db'.tweets = db.tweets
            /\ db'.finalized = db.finalized
            /\ DOMAIN db'.runs = DOMAIN db.runs \cup {res'.run_id}
            /\ \A r \in DOMAIN db.runs : db'.runs[r] = db.runs[r]
            /\ res'.run_id \notin DOMAIN db.runs =>
                  db'.runs[res'.run_id] = NewRun(StoreClock(db))]_vars

\* start_run was called again, at a later time, for a run that was started at
\* time 1, holds a row and was completed: the record is as it was
C29_Witness ==
    /\ res.kind = "start_run"
    /\ res.run_id \in DOMAIN db.runs
    /\ db.runs[res.run_id].started_at = Some(<<"datetime", 1>>)
    /\ db.runs[res.run_id].completed_at # None
    /\ db.runs[res.run_id].tweet_count = 1
    /\ StoreClock(db) > 1

----------------------------------------------------------------------------
(* serialize_tweet and deserialize_tweet applied to single items, and          *)
(* deserialize_tweet applied to payloads of older checkpoints (SpecCodec)      *)

\* the items: optional fields present or absent
CodecItems ==
    {[ScrapedTweet(id, 10, 5, parent) EXCEPT
            !.created_at = created_at, !.views = views, !.language = language,
            !.hashtags = hashtags, !.is_retweet = is_retweet] :
        id \in {1, 2},
        parent \in {None, Some(7)},
        created_at \in {None, <<"datetime", 3>>},
        views \in {None, Some(0), Some(100)},
        language \in {None, Some("en")},
        hashtags \in {<<>>, <<"tag">>},
        is_retweet \in BOOLEAN}

\* the keys deserialize_tweet reads with dict.get
OptionalKeys == {"display_name", "created_at", "views", "language", "hashtags",
                 "parent_tweet_id"}

\* the payloads of one item: what serialize_tweet returns, and what a checkpoint
\* written before a key existed holds
Without(data, keys) == [k \in DOMAIN data \ keys |-> data[k]]

\* serialize_tweet(item); `dropped` are the keys the payload lacks
CdSerialize ==
    /\ pc = "cd_idle"
    /\ \E item \in CodecItems : \E dropped \in {{}, {"parent_tweet_id"}, OptionalKeys} :
        res' = [kind |-> "serialized", stage |-> "", item |-> item, dropped |-> dropped,
                data |-> Without(serialize_tweet(item), dropped), back |-> None]
    /\ pc' = "cd_data"
    /\ UNCHANGED <<today, file, mem, cpBinding, loc, tasks, db, hist>>

\* deserialize_tweet(data)
CdDeserialize ==
    /\ pc = "cd_data"
    /\ res' = [res EXCEPT !.kind = "deserialized",
                          !.back = Some(deserialize_tweet(res.data))]
    /\ pc' = "cd_idle"
    /\ UNCHANGED <<today, file, mem, cpBinding, loc, tasks, db, hist>>

InitCodec ==
    /\ today = 1
    /\ file = NoFile
    /\ mem = NoState
    /\ cpBinding = "src"
    /\ pc = "cd_idle"
    /\ loc = LocInit
    /\ tasks = <<>>
    /\ db = EmptyDb
    /\ res = ResInit
    /\ hist = HistInit

NextCodec == CdSerialize \/ CdDeserialize

SpecCodec == InitCodec /\ [][NextCodec]_vars

\* C30: for every item with all fields populated (including parent_tweet_id)
\* and every item with optional fields absent (created_at, views, language,
\* parent_tweet_id), deserialize_tweet(serialize_tweet(item)) equals item;
\* deserializing a payload that has no parent_tweet_id key yields
\* parent_tweet_id = None.
C30_RoundTrip ==
    res.kind = "deserialized" =>
        /\ res.dropped = {} => res.back = Some(res.item)
        /\ "parent_tweet_id" \in res.dropped =>
              /\ res.back[1].parent_tweet_id = None
              /\ \A k \in DOMAIN res.item \ OptionalKeys : res.back[1][k] = res.item[k]
        /\ res.dropped = {"parent_tweet_id"} =>
              res.back = Some([res.item EXCEPT !.parent_tweet_id = None])

\* a reply with every field populated came back equal from the round trip
C30_Witness ==
    /\ res.kind = "deserialized"
    /\ res.dropped = {}
    /\ res.item.parent_tweet_id = Some(7)
    /\ res.item.created_at # None
    /\ res.item.views = Some(100)
    /\ res.item.language # None
    /\ res.item.hashtags # <<>>
    /\ res.data.created_at = <<"iso", 3>>
    /\ res.back = Some(res.item)

----------------------------------------------------------------------------
(* Properties of the checkpoint file (Spec, SpecCP, SpecIO) *)

\* a file load() cannot parse: there is none, or it is empty or truncated
Unreadable(f) == f.kind \in {"absent", "torn"}

\* C31: load() returns None when the checkpoint file is absent and when its
\* content cannot be parsed into a checkpoint; it never raises, and a pipeline
\* invocation that finds such a file starts a fresh run instead of failing.
C31_TolerantLoad ==
    [][/\ Unreadable(file) => load_result(file) = NoState /\ load(file, mem) = mem
       /\ (pc = "idle" /\ pc' = "resolve" /\ Unreadable(file)) =>
              ~loc'.resuming /\ ~mem'.has
       /\ (pc = "resolve" /\ Unreadable(file)) =>
              \/ /\ pc' = "components"
                 /\ mem' = Held(PipelineState(strftime(today), broad_topics))
                 /\ file' = Written(mem'.st)
              \/ pc' = "idle" /\ res'.kind = "crashed"
              \/ UNCHANGED <<pc, file, mem>>]_vars

\* an invocation that followed a process killed inside a save() of the fetch
\* stage found the truncated file and went on with a fresh run
C31_Witness ==
    /\ pc = "components"
    /\ hist.after_stop = "fetch"
    /\ ~hist.fresh
    /\ ~loc.resuming
    /\ file = Written(PipelineState(strftime(today), broad_topics))
    /\ mem = Held(file.st)

\* an operation of the manager has returned and the manager holds a state
CPHolds == pc \in {"cp_open", "cp_asked"} /\ mem.has

\* the durable checkpoint is the in-memory state, field by field
Durable(m, f) ==
    /\ m.has
    /\ f.kind = "json"
    /\ f.st.run_id = m.st.run_id
    /\ f.st.step1_complete = m.st.step1_complete
    /\ f.st.step2_complete = m.st.step2_complete
    /\ f.st.topics_completed = m.st.topics_completed
    /\ f.st.topics_remaining = m.st.topics_remaining
    /\ f.st.broad_tweets = m.st.broad_tweets
    /\ f.st.retry_counts = m.st.retry_counts
    /\ f.st.error = m.st.error
    /\ load_result(f) = m

\* C32: whenever start_new_run, mark_topic_complete (every branch),
\* complete_step1, complete_step2 or set_error returns, the durable checkpoint
\* equals the in-memory state in run_id, stage flags, topic lists, collected
\* items, retry counts and error; a manager created after a crash that follows
\* the call loads that state.
C32_NoWriteBehind ==
    [][/\ CPHolds' => Durable(mem', file')
       /\ (mem' # mem /\ mem'.has /\ file' = file) => mem' = load(file, mem)
       /\ (CPHolds /\ pc' = "cp_closed" /\ file' # TornFile) =>
              file' = file /\ load(file', mem') = mem]_vars

\* mark_topic_complete has returned from its three branches: topic b was
\* completed with items, topic a was scheduled for a retry three times and then
\* force-completed, and the file holds all of it
C32_Witness ==
    /\ pc = "cp_open"
    /\ mem.has
    /\ mem.st.topics_completed = <<"b", "a">>
    /\ mem.st.topics_remaining = <<>>
    /\ mem.st.retry_counts = ("a" :> MAX_RETRIES)
    /\ Len(mem.st.broad_tweets) = ItemsPerTopic
    /\ mem.st.error # ""
    /\ file = Written(mem.st)

\* the process dies in this step
Dies == pc # "idle" /\ pc' = "idle" /\ res'.kind = "crashed"

\* C33: at every point at which the process can crash during save(), the
\* checkpoint file holds either the complete previous checkpoint or the
\* complete new one; a reader never observes an empty or partially written
\* file, so a crash during a write never makes should_resume() false for a run
\* that had persisted progress.
C33_AtomicWrites ==
    [][Dies =>
          /\ file'.kind # "torn"
          /\ file.kind = "json" => file'.kind = "json"
          /\ should_resume(file, today) => should_resume(file', today)]_vars

\* C34: set_error(msg) never raises, also when the checkpoint medium is
\* unwritable; if a state exists it sets the state's error to msg and persists
\* it, leaving every other field unchanged.
C34_SetErrorBestEffort ==
    [][HandledStep =>
        /\ res'.kind # "raised"
        /\ file' \in {file, Written([mem.st EXCEPT !.error = loc.error])}]_vars

----------------------------------------------------------------------------
(* CheckpointManager called while it may hold no state (SpecGuard): the        *)
(* operations of SpecCP and the state-based operations on a manager that was   *)
(* not given a state                                                           *)

\* the operations that begin with get_state()
StateOps == {"get_state", "mark_topic_complete", "get_broad_tweets",
             "complete_step1", "complete_step2"}

\* a get_state() that hands out an empty state when none is held
get_state_lenient(m) == [raised |-> FALSE, st |-> m.st]

\* get_state() (checkpoint.py:159-163)
get_state(m) == [raised |-> ~m.has, st |-> m.st]

\* what a state-based operation does to the state get_state() gave it
Apply(op, st) ==
    IF op = "mark_topic_complete" THEN mark_topic_complete(st, "a", <<>>)
    ELSE IF op = "complete_step1" THEN complete_step1(st)
    ELSE IF op = "complete_step2" THEN complete_step2(st)
    ELSE st

\* a state-based operation is called on a manager that holds no state
CPStateless ==
    /\ CPLive
    /\ ~mem.has
    /\ \E op \in StateOps :
        LET got == get_state(mem) IN
        IF got.raised
        THEN /\ res' = [kind |-> "RuntimeError", stage |-> op]
             /\ UNCHANGED <<mem, file>>
        ELSE /\ res' = [kind |-> "returned", stage |-> op]
             /\ mem' = IF op \in {"get_state", "get_broad_tweets"} THEN mem
                       ELSE Held(Apply(op, got.st))
             /\ file' = IF op \in {"get_state", "get_broad_tweets"} THEN file
                        ELSE save(mem', file)
    /\ pc' = "cp_open"
    /\ UNCHANGED <<today, cpBinding, loc, tasks, db, hist>>

NextGuard ==
    \/ CPNew \/ CPShouldResume \/ CPLoad \/ CPStartNewRun \/ CPMark \/ CPStep1
    \/ CPStep2 \/ CPSetError \/ CPClear \/ CPClose \/ CPCrashInSave \/ CPStateless

SpecGuard == InitCP /\ [][NextGuard]_vars

\* C35: get_state() fails with an invalid-state error whenever no state is held
\* (before any start_new_run or successful load, and after clear), and in that
\* case mark_topic_complete, get_broad_tweets, complete_step1 and
\* complete_step2 fail the same way without writing the checkpoint file.
C35_InvalidState ==
    [][(CPLive /\ ~mem.has) =>
          /\ (res' # res /\ res'.stage \in StateOps) =>
                /\ res'.kind = "RuntimeError"
                /\ file' = file
                /\ mem' = mem
          /\ file' # file =>
                \/ mem' = Held(PipelineState(strftime(today), broad_topics))
                \/ file' = NoFile]_vars

\* a manager created over the checkpoint of a run in progress was asked to mark
\* a topic before it had loaded anything: the call failed, the file is as it was
C35_Witness ==
    /\ pc = "cp_open"
    /\ ~mem.has
    /\ res = [kind |-> "RuntimeError", stage |-> "mark_topic_complete"]
    /\ file.kind = "json"
    /\ file.st.topics_completed = <<"a">>
    /\ ~file.st.step1_complete

\* clear() was called, and complete_step2 on the cleared manager failed
C35_AfterClear ==
    /\ pc = "cp_open"
    /\ ~mem.has
    /\ res = [kind |-> "RuntimeError", stage |-> "complete_step2"]
    /\ file = NoFile
    /\ hist.run_day > 0

----------------------------------------------------------------------------
(* Properties of start_new_run (Spec, SpecCP) *)

\* run_pipeline called start_new_run: should_resume() had answered False
StartsRun == pc = "resolve" /\ pc' = "components" /\ ~loc.resuming

\* the state is the first state of a run of `day` over `topics`, field by field
FirstState(st, day, topics) ==
    /\ st.run_id = <<"Ymd", day>>
    /\ st.topics_remaining = topics
    /\ st.topics_completed = <<>>
    /\ st.broad_tweets = <<>>
    /\ DOMAIN st.retry_counts = {}
    /\ ~st.step1_complete
    /\ ~st.step2_complete
    /\ st.error = ""

\* the checkpoint start_new_run finds: of another day, or of a finished run
Superseded(f, day) ==
    /\ f.kind = "json"
    /\ f.st.run_id # <<"Ymd", day>> \/ f.st.step2_complete

\* C36: start_new_run(topics) yields a checkpoint with run_id equal to the
\* current day's 8-digit date, topics_remaining equal to topics in order,
\* topics_completed, collected items and retry counts empty, both stage flags
\* false and no error, persists it immediately, and replaces any checkpoint that
\* existed before (stale day or finished run).
C36_StartNewRun ==
    [][StartsRun =>
          /\ mem'.has
          /\ FirstState(mem'.st, today, <<"a", "b">>)
          /\ file'.kind = "json"
          /\ FirstState(file'.st, today, <<"a", "b">>)
          /\ load_result(file') = mem'
          /\ Superseded(file, today) => ~Superseded(file', today)]_vars

\* the same for the manager called directly, whatever it held and whatever the
\* file was
C36_ManagerStartNewRun ==
    [][CPStartNewRun =>
          /\ mem'.has
          /\ FirstState(mem'.st, today, <<"a", "b">>)
          /\ file'.kind = "json"
          /\ FirstState(file'.st, today, <<"a", "b">>)
          /\ load_result(file') = mem']_vars

\* day 2: an invocation found the file an earlier day's run had left, did not
\* resume, and holds the first state of the run of day 2, saved
C36_Witness ==
    /\ pc = "components"
    /\ ~loc.resuming
    /\ ~hist.fresh
    /\ today = 2
    /\ DOMAIN db.runs # {}
    /\ mem.has
    /\ FirstState(mem.st, 2, <<"a", "b">>)
    /\ file = Written(mem.st)

\* start_new_run is about to replace a checkpoint of another day that holds
\* items, and one of a finished run
C36_StaleFound ==
    /\ pc = "resolve" /\ ~loc.resuming /\ file.kind = "json"
    /\ file.st.run_id # strftime(today) /\ file.st.broad_tweets # <<>>
C36_FinishedFound ==
    /\ pc = "resolve" /\ ~loc.resuming /\ file.kind = "json"
    /\ file.st.run_id = strftime(today) /\ file.st.step2_complete

----------------------------------------------------------------------------
(* Properties of the stage flags (Spec) *)

\* every original topic is in topics_completed and none is left to fetch
AllTopicsDone(st) ==
    /\ st.topics_remaining = <<>>
    /\ \A t \in Topics : InSeq(t, st.topics_completed)

\* C37: in every reachable checkpoint state of the pipeline, step1_complete
\* implies that topics_remaining is empty (every original topic is in
\* topics_completed); reply expansion and storage never start while a topic is
\* still in topics_remaining.
C37_Step1MeansAllDone ==
    /\ (mem.has /\ mem.st.step1_complete) => AllTopicsDone(mem.st)
    /\ (file.kind = "json" /\ file.st.step1_complete) => AllTopicsDone(file.st)
    /\ pc \in {"replies", "store", "store_replies", "complete_run"} =>
           mem.st.topics_remaining = <<>>

\* reply expansion starts, and the items are stored, with topic "a" scheduled
\* for a retry and still in topics_remaining
C37_RepliesWhileRemaining ==
    /\ pc = "replies" /\ mem.st.step1_complete
    /\ mem.st.topics_remaining = <<"a">> /\ mem.st.topics_completed = <<"b">>
C37_StoredWhileRemaining ==
    /\ pc = "store_replies" /\ cpBinding = "tests" /\ mem.st.topics_remaining = <<"a">>
    /\ db.tweets # {}

----------------------------------------------------------------------------
(* Properties of the retry budget across invocations (Spec) *)

\* a search_tweets call for topic t ended in this step
FetchEnded(t) == DictGet(loc'.fetched, t, 0) > DictGet(loc.fetched, t, 0)

\* an invocation that follows, on the same day, a process of the run that
\* stopped in the fetch stage, leaves the resolution of its checkpoint
CycleResolved ==
    /\ pc = "resolve" /\ pc' = "components"
    /\ hist.run_day = today /\ hist.after_stop = "fetch"

\* C38: over any number of batches and same-day crash/resume cycles of one run,
\* each topic is fetched at most 4 times in total, and after a topic has entered
\* topics_completed it is never fetched again; every invocation of
\* get_broad_tweets_incremental runs finitely many batches. Step by step: a
\* topic is fetched only while it is in topics_remaining, and at most once per
\* invocation; every fetch that ended completes the topic or adds one to its
\* retry count, which never exceeds 3; the completed topics and the retry counts
\* are the same after a crash/resume cycle as before it; every batch moves
\* topic_index forward in an unchanged list.
C38_BoundedRetries ==
    [][\A t \in Topics :
          /\ FetchEnded(t) =>
                /\ InSeq(t, mem.st.topics_remaining)
                /\ ~InSeq(t, mem.st.topics_completed)
                /\ DictGet(loc.fetched, t, 0) = 0
                /\ \/ InSeq(t, mem'.st.topics_completed)
                   \/ /\ DictGet(mem'.st.retry_counts, t, 0)
                            = DictGet(mem.st.retry_counts, t, 0) + 1
                      /\ DictGet(mem'.st.retry_counts, t, 0) <= MAX_RETRIES
          /\ CycleResolved =>
                /\ t \in hist.nonempty => InSeq(t, mem'.st.topics_completed)
                /\ hist.empties[t] > MAX_RETRIES => InSeq(t, mem'.st.topics_completed)
                /\ hist.empties[t] <= MAX_RETRIES =>
                       DictGet(mem'.st.retry_counts, t, 0) = hist.empties[t]
          /\ (pc = "gather" /\ pc' = "batch") =>
                /\ loc'.topic_index > loc.topic_index
                /\ loc'.topic_index <= Len(loc.remaining)
                /\ loc'.remaining = loc.remaining]_vars

\* the same with the cycle left out: what holds inside one checkpoint
C38_WithinCheckpoint ==
    [][\A t \in Topics :
          /\ FetchEnded(t) =>
                /\ InSeq(t, mem.st.topics_remaining)
                /\ ~InSeq(t, mem.st.topics_completed)
                /\ DictGet(loc.fetched, t, 0) = 0
                /\ \/ InSeq(t, mem'.st.topics_completed)
                   \/ /\ DictGet(mem'.st.retry_counts, t, 0)
                            = DictGet(mem.st.retry_counts, t, 0) + 1
                      /\ DictGet(mem'.st.retry_counts, t, 0) <= MAX_RETRIES
          /\ (CycleResolved /\ loc.resuming) =>
                /\ t \in hist.nonempty => InSeq(t, mem'.st.topics_completed)
                /\ hist.empties[t] > MAX_RETRIES => InSeq(t, mem'.st.topics_completed)
                /\ hist.empties[t] <= MAX_RETRIES =>
                       DictGet(mem'.st.retry_counts, t, 0) = hist.empties[t]
          /\ (pc = "gather" /\ pc' = "batch") =>
                /\ loc'.topic_index > loc.topic_index
                /\ loc'.topic_index <= Len(loc.remaining)
                /\ loc'.remaining = loc.remaining]_vars

\* a cycle of the run that did not resume found a truncated checkpoint file
C38_OnlyTornRestarts ==
    [][(CycleResolved /\ ~loc.resuming) => file.kind = "torn"]_vars

----------------------------------------------------------------------------
(* Properties of the list that is ranked and the list that is stored (Spec) *)

\* how often x occurs in the list
CountIn(x, list) == Cardinality({i \in DOMAIN list : list[i] = x})

\* the two lists hold the same items with the same multiplicity
SameItems(l1, l2) ==
    /\ Len(l1) = Len(l2)
    /\ \A i \in DOMAIN l1 : CountIn(l1[i], l1) = CountIn(l1[i], l2)

\* C39: in every run_pipeline execution that reaches the store stage (fresh or
\* resumed, step 1 skipped or not), the item list given to reply expansion
\* (checkpoint items plus freshly fetched items) has the same items, with the
\* same multiplicity, as the checkpoint's collected items that are then passed
\* to store_tweets; no fetched item is ranked but not stored or stored but not
\* ranked.
C39_RankedIsStored ==
    [][/\ (pc = "check" /\ pc' = "replies") =>
              /\ loc'.top = top_tweets(loc.broad_tweets, TopN)
              /\ SameItems(loc.broad_tweets, DeserializeAll(mem.st.broad_tweets))
       /\ (pc \in {"check", "replies"} /\ pc' \in {"replies", "store"}) =>
              mem'.st.broad_tweets = mem.st.broad_tweets
       /\ (pc = "store" /\ pc' \notin {"store", "idle"}) =>
              \/ /\ pc' = "store_replies"
                 /\ db' = store_tweets(db, DeserializeAll(mem.st.broad_tweets),
                                       mem.st.run_id, "broad")
              \/ pc' = "except" /\ loc'.error = "OperationalError"]_vars

\* the ranked list and the checkpoint's items, without the hand-over to
\* store_tweets
C39_RankedIsCheckpointed ==
    [][/\ (pc = "check" /\ pc' = "replies") =>
              /\ loc'.top = top_tweets(loc.broad_tweets, TopN)
              /\ loc.broad_tweets = DeserializeAll(mem.st.broad_tweets)
       /\ (pc \in {"check", "replies"} /\ pc' \in {"replies", "store"}) =>
              mem'.st.broad_tweets = mem.st.broad_tweets
       /\ (pc = "store" /\ pc' = "store_replies") =>
              db' = store_tweets(db, DeserializeAll(mem.st.broad_tweets),
                                 mem.st.run_id, "broad")]_vars

\* a resumed invocation is about to rank the items of the checkpoint together
\* with the ones it fetched itself; another skips step 1 with items to rank
C39_ResumedRanks ==
    pc = "complete1" /\ loc.existing_tweets # <<>> /\ loc.all_tweets # <<>>
C39_SkippedRanks ==
    pc = "check" /\ hist.after_stop = "other" /\ loc.broad_tweets # <<>>

----------------------------------------------------------------------------
(* Properties of the release of the scraper and the store (Spec) *)

\* run_pipeline was left: it returned, or an exception or an interruption left it
Exited == pc = "idle" /\ res.kind \in {"true", "false", "raised", "interrupted"}

\* C40: on every path by which run_pipeline exits after the scraper and the
\* store were created (success, returned failure of any kind, exception,
\* interruption), scraper.close() and store.close() have each been called
\* exactly once.
C40_ResourcesReleased ==
    (Exited /\ hist.created = {"scraper", "store"}) =>
        /\ CountIn("scraper", res.closed) = 1
        /\ CountIn("store", res.closed) = 1

\* the same for the exits from inside the try statement
C40_ReleasedAfterTry ==
    (Exited /\ hist.created = {"scraper", "store"} /\ res.stage # "accounts"
            /\ ~(res.kind = "raised" /\ res.stage = "other")) =>
        /\ CountIn("scraper", res.closed) = 1
        /\ CountIn("store", res.closed) = 1

\* run_pipeline returned False from the account check, and was interrupted in
\* it, with the scraper and the store created and neither closed
C40_AccountExitUnreleased ==
    /\ Exited /\ res.kind = "false" /\ res.stage = "accounts"
    /\ hist.created = {"scraper", "store"} /\ res.closed = <<>>
C40_InterruptUnreleased ==
    /\ Exited /\ res.kind = "interrupted" /\ res.stage = "accounts"
    /\ hist.created = {"scraper", "store"} /\ res.closed = <<>>

====
